---------------------------- MODULE Spec2Model ----------------------------
(***************************************************************************)
(* Model of the encrypted-transfer core of the WebDAV manager:             *)
(*   core/encryption.py      AdaptiveFileEncryptor (container format)      *)
(*   core/master_key.py      MasterKeyManager                              *)
(*   core/key_manager.py     KeyManager (key store)                        *)
(*   services/secure_transfer.py  SecureTransferService                    *)
(*   ui/login_dialog.py, ui/restore_dialog.py  login session               *)
(*                                                                         *)
(* Byte strings are sequences of segments.  A segment is a run of bytes    *)
(* that is either spelled out ("lit"), a slice of an opaque source such as *)
(* a plaintext file, an IV or a salt ("src"), PKCS7 padding ("pad"), AES   *)
(* ciphertext ("enc", which remembers key, IV, chain offset and the        *)
(* plaintext it encrypts) or the output of a decryption that did not match *)
(* ("junk").  All sizes and chunk sizes are the program's own.             *)
(***************************************************************************)
EXTENDS Integers, Sequences, FiniteSets, TLC

VARIABLES
    fs,                 \* local file system: path -> content or NoFile
    remote,             \* WebDAV server: remote path -> content or NoFile
    enc_key,            \* AdaptiveFileEncryptor.key of the active encryptor
    prov,               \* history: for each container path, how it was produced
    salt_file,          \* MasterKeyManager.salt_file
    master_key_file,    \* MasterKeyManager.master_key_file
    backup_file,        \* MasterKeyManager.backup_file
    ext_file,           \* a file outside the config dir (user's backup copy)
    cur_pw,             \* history: password of the last successful create/change/restore
    attempts,           \* LoginDialog.attempts
    dlg,                \* LoginDialog: state of the dialog and of its widgets
    evals,              \* history: verify_password calls made by the dialog
    km_master_key_file, \* KeyManager.master_key_file ('.master.key')
    keys_file,          \* KeyManager.keys_file ('encryption_keys.json')
    km,                 \* the live KeyManager instance (_master_key)
    shadow,             \* history: the abstract map id -> record
    threads,            \* worker threads and concurrent callers: position and locals
    signals,            \* SecureTransferService signals: connections, queued and handled calls
    client,             \* WebDAVClient: _max_retries and _retry_delay
    last                \* history: the last operation and what it returned

vars == <<fs, remote, enc_key, prov, salt_file, master_key_file, backup_file,
          ext_file, cur_pw, attempts, dlg, evals, km_master_key_file,
          keys_file, km, shadow, threads, signals, client, last>>

encVars == <<fs, enc_key, prov>>
mkVars == <<salt_file, master_key_file, backup_file, ext_file, cur_pw>>
dlgVars == <<attempts, dlg, evals>>
ksVars == <<km_master_key_file, keys_file, km, shadow>>
mwVars == <<threads, signals, client>>

-----------------------------------------------------------------------------
(* Bytes, strings and segments *)

Min(a, b) == IF a < b THEN a ELSE b

Max(a, b) == IF a > b THEN a ELSE b

\* a path of the local or remote file system holds a file or nothing
NoFile == [ex |-> FALSE, d |-> <<>>]

File(d) == [ex |-> TRUE, d |-> d]

MkSeg(t, a, b, n, lo, hi, p) ==
    [t |-> t, a |-> a, b |-> b, n |-> n, lo |-> lo, hi |-> hi, p |-> p]

\* explicit bytes
Lit(bytes) == MkSeg("lit", "", "", bytes, 0, Len(bytes), <<>>)

\* bytes lo+1..hi of the opaque byte source f
Src(f, lo, hi) == MkSeg("src", f, "", <<>>, lo, hi, <<>>)

\* PKCS7 padding: v bytes of value v
PadSeg(v) == MkSeg("pad", "", "", <<v>>, 0, v, <<>>)

\* bytes lo+1..hi of the CBC stream under key k and IV iv whose plaintext is p
EncSeg(k, iv, lo, hi, p) == MkSeg("enc", k, iv, <<>>, lo, hi, p)

\* len bytes that no encryption under the decrypting key produced
JunkSeg(len) == MkSeg("junk", "", "", <<>>, 0, len, <<>>)

SegLen(s) == s.hi - s.lo

RECURSIVE DataLen(_)
DataLen(d) == IF d = <<>> THEN 0 ELSE SegLen(Head(d)) + DataLen(Tail(d))

RECURSIVE Cat(_, _)
\* two adjacent segments as one, when they continue each other
Mergeable(s, u) ==
    /\ s.t = u.t
    /\ CASE s.t = "lit" -> TRUE
         [] s.t = "src" -> s.a = u.a /\ s.hi = u.lo
         [] s.t = "pad" -> s.n = u.n
         [] s.t = "enc" -> s.a = u.a /\ s.b = u.b /\ s.hi = u.lo
         [] OTHER -> TRUE

Merged(s, u) ==
    CASE s.t = "lit" -> Lit(s.n \o u.n)
      [] s.t = "src" -> [s EXCEPT !.hi = u.hi]
      [] s.t = "enc" -> [s EXCEPT !.hi = u.hi, !.p = Cat(s.p, u.p)]
      [] OTHER -> [s EXCEPT !.hi = s.hi + SegLen(u)]

\* concatenation of byte strings, in normal form
Cat(d, e) ==
    IF d = <<>> THEN e
    ELSE IF e = <<>> THEN d
    ELSE LET s == d[Len(d)]
             u == Head(e)
         IN IF Mergeable(s, u)
            THEN SubSeq(d, 1, Len(d) - 1) \o <<Merged(s, u)>> \o Tail(e)
            ELSE d \o e

RECURSIVE Slice(_, _, _)
\* bytes x+1..y of one segment (0 <= x < y <= SegLen(s))
SegSlice(s, x, y) ==
    CASE s.t = "lit" -> Lit(SubSeq(s.n, x + 1, y))
      [] s.t = "src" -> [s EXCEPT !.lo = s.lo + x, !.hi = s.lo + y]
      [] s.t = "enc" -> [s EXCEPT !.lo = s.lo + x, !.hi = s.lo + y,
                                  !.p = Slice(s.p, x, y)]
      [] OTHER -> [s EXCEPT !.lo = 0, !.hi = y - x]

\* bytes x+1..y of a byte string (python d[x:y])
Slice(d, x, y) ==
    IF d = <<>> \/ y <= x THEN <<>>
    ELSE LET s == Head(d)
             n == SegLen(s)
         IN IF x >= n THEN Slice(Tail(d), x - n, y - n)
            ELSE IF y <= n THEN <<SegSlice(s, x, y)>>
            ELSE Cat(<<SegSlice(s, x, n)>>, Slice(Tail(d), 0, y - n))

\* f.read(n) at file position pos
Read(d, pos, n) == Slice(d, pos, Min(pos + n, DataLen(d)))

-----------------------------------------------------------------------------
(* Text: str.encode('utf-8') and bytes.decode('utf-8') on code points *)

RECURSIVE Utf8Encode(_)
Utf8Char(c) ==
    IF c < 128 THEN <<c>>
    ELSE IF c < 2048 THEN <<192 + (c \div 64), 128 + (c % 64)>>
    ELSE <<224 + (c \div 4096), 128 + ((c \div 64) % 64), 128 + (c % 64)>>

Utf8Encode(s) ==
    IF s = <<>> THEN <<>> ELSE Utf8Char(Head(s)) \o Utf8Encode(Tail(s))

IsCont(b) == b >= 128 /\ b < 192

RECURSIVE Utf8Decode(_)
\* [ok, s]: ok is FALSE where python raises UnicodeDecodeError
Utf8Decode(b) ==
    IF b = <<>> THEN [ok |-> TRUE, s |-> <<>>]
    ELSE LET h == Head(b)
             n == IF h < 128 THEN 1
                  ELSE IF h >= 192 /\ h < 224 THEN 2
                  ELSE IF h >= 224 /\ h < 240 THEN 3
                  ELSE 0
         IN IF n = 0 \/ Len(b) < n
               \/ (\E i \in 2..n : ~IsCont(b[i]))
            THEN [ok |-> FALSE, s |-> <<>>]
            ELSE LET c == IF n = 1 THEN h
                          ELSE IF n = 2 THEN (h - 192) * 64 + (b[2] - 128)
                          ELSE (h - 224) * 4096 + (b[2] - 128) * 64
                               + (b[3] - 128)
                     r == Utf8Decode(SubSeq(b, n + 1, Len(b)))
                 IN [ok |-> r.ok, s |-> <<c>> \o r.s]

\* python s[:n]
Take(s, n) == SubSeq(s, 1, Min(n, Len(s)))

RECURSIVE RStripNul(_)
\* str.rstrip('\x00')
RStripNul(s) ==
    IF s # <<>> /\ s[Len(s)] = 0 THEN RStripNul(SubSeq(s, 1, Len(s) - 1))
    ELSE s

\* bytes.ljust(n, b'\x00')
LJustNul(b, n) == b \o [i \in 1..(n - Min(n, Len(b))) |-> 0]

\* the bytes of a byte string that is spelled out; [ok |-> FALSE] otherwise
BytesOf(d) ==
    IF d = <<>> THEN [ok |-> TRUE, b |-> <<>>]
    ELSE IF Len(d) = 1 /\ d[1].t = "lit" THEN [ok |-> TRUE, b |-> d[1].n]
    ELSE [ok |-> FALSE, b |-> <<>>]

-----------------------------------------------------------------------------
(* core/encryption.py: AdaptiveFileEncryptor *)

BLOCK_SIZE == 16

KEY_SIZE == 32

\* b'WEBDAV_ENC_V2'
MAGIC == <<87, 69, 66, 68, 65, 86, 95, 69, 78, 67, 95, 86, 50>>

BASE_CHUNK_SIZE == 64 * 1024

SMALL_FILE_THRESHOLD == 10 * 1024 * 1024

MEDIUM_FILE_THRESHOLD == 100 * 1024 * 1024

LARGE_FILE_THRESHOLD == 1024 * 1024 * 1024

\* bytes of the key tag in the header
TAG_SIZE == 8

\* bytes of the salt copied into the header
SALT_SIZE == 16

\* _detect_storage_type returns True on both of its paths
detect_storage_type == TRUE

\* get_optimal_chunk_size whose tiers end at their thresholds inclusively
get_optimal_chunk_size_inclusive(file_size, is_ssd) ==
    LET base0 == IF file_size <= SMALL_FILE_THRESHOLD THEN BASE_CHUNK_SIZE * 4
                 ELSE IF file_size <= MEDIUM_FILE_THRESHOLD
                      THEN BASE_CHUNK_SIZE * 16
                 ELSE IF file_size <= LARGE_FILE_THRESHOLD
                      THEN BASE_CHUNK_SIZE * 64
                 ELSE BASE_CHUNK_SIZE * 256
        base1 == IF ~is_ssd THEN Min(base0, BASE_CHUNK_SIZE * 32) ELSE base0
    IN (base1 \div BLOCK_SIZE) * BLOCK_SIZE

get_optimal_chunk_size(file_size, is_ssd) ==
    LET base0 == IF file_size < SMALL_FILE_THRESHOLD THEN BASE_CHUNK_SIZE * 4
                 ELSE IF file_size < MEDIUM_FILE_THRESHOLD
                      THEN BASE_CHUNK_SIZE * 16
                 ELSE IF file_size < LARGE_FILE_THRESHOLD
                      THEN BASE_CHUNK_SIZE * 64
                 ELSE BASE_CHUNK_SIZE * 256
        base1 == IF ~is_ssd THEN Min(base0, BASE_CHUNK_SIZE * 32) ELSE base0
    IN (base1 \div BLOCK_SIZE) * BLOCK_SIZE

\* padding.PKCS7(128).padder(): update returns the complete blocks
PadderUpdate(buf, chunk) ==
    LET all == Cat(buf, chunk)
        nb == (DataLen(all) \div BLOCK_SIZE) * BLOCK_SIZE
    IN [out |-> Slice(all, 0, nb), buf |-> Slice(all, nb, DataLen(all))]

\* padder.finalize(): the rest and 1..16 bytes of padding
PadderFinalize(buf) == Cat(buf, <<PadSeg(BLOCK_SIZE - DataLen(buf))>>)

\* encryptor.update() of AES-CBC on whole blocks, cpos bytes into the stream
EncryptorUpdate(k, iv, cpos, data) ==
    IF data = <<>> THEN <<>>
    ELSE <<EncSeg(k, iv, cpos, cpos + DataLen(data), data)>>

\* the key tag written at encryption.py:316-317
KeyTag(id) == LJustNul(Take(Utf8Encode(id), TAG_SIZE), TAG_SIZE)

RECURSIVE EncryptLoop(_, _, _, _, _, _, _, _)
\* the read loop of the encrypt branch; returns what was written after the header
EncryptLoop(k, iv, chunk_size, data, pos, buf, cpos, out) ==
    LET chunk == Read(data, pos, chunk_size)
    IN IF chunk = <<>>
       THEN Cat(out, EncryptorUpdate(k, iv, cpos, PadderFinalize(buf)))
       ELSE LET pu == PadderUpdate(buf, chunk)
                encrypted == EncryptorUpdate(k, iv, cpos, pu.out)
            IN EncryptLoop(k, iv, chunk_size, data, pos + DataLen(chunk),
                           pu.buf, cpos + DataLen(pu.out), Cat(out, encrypted))

\* _process_file(mode='encrypt'): [ok, msg, fs]
EncryptFile(fsys, key, input_path, output_path, iv) ==
    IF ~fsys[input_path].ex
    THEN [ok |-> FALSE, msg |-> "not_found", fs |-> fsys]
    ELSE LET data == fsys[input_path].d
             file_size == DataLen(data)
             chunk_size == get_optimal_chunk_size(file_size,
                                                  detect_storage_type)
             header == Cat(<<Lit(MAGIC \o KeyTag(key.id))>>,
                           <<Src(iv, 0, BLOCK_SIZE),
                             Src(key.salt, 0, SALT_SIZE)>>)
             body == EncryptLoop(key.key, iv, chunk_size, data, 0, <<>>, 0,
                                 <<>>)
         IN [ok |-> TRUE, msg |-> "encrypted",
             fs |-> [fsys EXCEPT ![output_path] = File(Cat(header, body))]]

\* decryptor.update() of AES-CBC on one segment, dpos bytes into the stream:
\* the plaintext comes back when key, IV and chain position are those of the
\* encryption, anything else decrypts to bytes nobody chose
DecryptSeg(s, k, iv, dpos) ==
    IF s.t = "enc" /\ s.a = k /\ s.b = iv /\ s.lo = dpos
    THEN s.p
    ELSE <<JunkSeg(SegLen(s))>>

RECURSIVE DecryptData(_, _, _, _)
DecryptData(d, k, iv, dpos) ==
    IF d = <<>> THEN <<>>
    ELSE Cat(DecryptSeg(Head(d), k, iv, dpos),
             DecryptData(Tail(d), k, iv, dpos + SegLen(Head(d))))

\* decryptor.update(): decrypts the complete blocks, keeps the rest
DecryptorUpdate(dbuf, chunk, k, iv, dpos) ==
    LET all == Cat(dbuf, chunk)
        nb == (DataLen(all) \div BLOCK_SIZE) * BLOCK_SIZE
    IN [out |-> DecryptData(Slice(all, 0, nb), k, iv, dpos),
        buf |-> Slice(all, nb, DataLen(all))]

\* padding.PKCS7(128).unpadder(): update holds the last complete block back
UnpadderUpdate(buf, data) ==
    LET all == Cat(buf, data)
        nb == Max((DataLen(all) \div BLOCK_SIZE) - 1, 0) * BLOCK_SIZE
    IN [out |-> Slice(all, 0, nb), buf |-> Slice(all, nb, DataLen(all))]

\* the padding length the last block shows, 0 when the padding is invalid;
\* luck decides for bytes nobody chose (0: invalid, v: v valid padding bytes)
PaddingOf(block, luck) ==
    LET s == block[Len(block)]
    IN CASE s.t = "pad" -> IF SegLen(s) >= s.n[1] THEN s.n[1] ELSE 0
         [] s.t = "lit" ->
              LET v == s.n[Len(s.n)]
              IN IF v >= 1 /\ v <= BLOCK_SIZE /\ Len(s.n) >= v
                    /\ (\A i \in (Len(s.n) - v + 1)..Len(s.n) : s.n[i] = v)
                 THEN v ELSE 0
         [] OTHER -> luck

\* unpadder.finalize(): [ok, out]; ok is FALSE where it raises ValueError
UnpadderFinalize(buf, luck) ==
    IF DataLen(buf) # BLOCK_SIZE THEN [ok |-> FALSE, out |-> <<>>]
    ELSE LET v == PaddingOf(buf, luck)
         IN IF v = 0 THEN [ok |-> FALSE, out |-> <<>>]
            ELSE [ok |-> TRUE, out |-> Slice(buf, 0, BLOCK_SIZE - v)]

\* a comparison that accepts every prefix of the magic
MagicMatchesPrefix(magic) ==
    \/ magic = <<>>
    \/ /\ Len(magic) = 1
       /\ magic[1].t = "lit"
       /\ magic[1].n = SubSeq(MAGIC, 1, Len(magic[1].n))

\* the comparison of encryption.py:352
MagicMatches(magic) == magic = <<Lit(MAGIC)>>

\* the name of the IV read from the header ("?" when it is no whole IV)
IvOf(d) ==
    IF Len(d) = 1 /\ d[1].t = "src" /\ d[1].lo = 0 /\ d[1].hi = BLOCK_SIZE
    THEN d[1].a ELSE "?"

\* a comparison on the first four characters only
TagMatchesShort(key_id, id) == Take(key_id, 4) = Take(id, 4)

\* the comparison of encryption.py:356, on the decoded and stripped tag
TagMatches(key_id, id) == key_id = Take(id, TAG_SIZE)

RECURSIVE DecryptLoop(_, _, _, _, _, _, _, _, _, _, _)
\* the read loop of the decrypt branch: [ok, out, pos]
DecryptLoop(k, iv, chunk_size, data, file_size, pos, dbuf, dpos, ubuf, out, luck) ==
    LET chunk == Read(data, pos, chunk_size)
    IN IF chunk = <<>> THEN [ok |-> TRUE, out |-> out, pos |-> pos]
       ELSE LET du == DecryptorUpdate(dbuf, chunk, k, iv, dpos)
                tell == pos + DataLen(chunk)
                uu == UnpadderUpdate(ubuf, du.out)
                fin == UnpadderFinalize(uu.buf, luck)
            IN IF tell = file_size
               THEN IF fin.ok
                    THEN DecryptLoop(k, iv, chunk_size, data, file_size, tell,
                                     du.buf, dpos + DataLen(du.out), <<>>,
                                     Cat(out, Cat(uu.out, fin.out)), luck)
                    ELSE [ok |-> FALSE, out |-> out, pos |-> tell]
               ELSE DecryptLoop(k, iv, chunk_size, data, file_size, tell,
                                du.buf, dpos + DataLen(du.out), uu.buf,
                                Cat(out, uu.out), luck)

HEADER_SIZE == Len(MAGIC) + TAG_SIZE + BLOCK_SIZE + SALT_SIZE

\* _process_file(mode='decrypt'): [ok, msg, fs, pos, cipher]
\*   pos: how far the input was read; cipher: whether a cipher was set up
DecryptFile(fsys, key, input_path, output_path, luck) ==
    IF ~fsys[input_path].ex
    THEN [ok |-> FALSE, msg |-> "not_found", fs |-> fsys, pos |-> 0,
          cipher |-> FALSE]
    ELSE
    LET data == fsys[input_path].d
        file_size == DataLen(data)
        chunk_size == get_optimal_chunk_size(file_size, detect_storage_type)
        magic == Read(data, 0, Len(MAGIC))
        p1 == DataLen(magic)
        tag == Read(data, p1, TAG_SIZE)
        p2 == p1 + DataLen(tag)
        raw == BytesOf(tag)
        dec == Utf8Decode(raw.b)
        iv == Read(data, p2, BLOCK_SIZE)
        p3 == p2 + DataLen(iv)
        salt == Read(data, p3, SALT_SIZE)
        p4 == p3 + DataLen(salt)
    IN IF ~MagicMatches(magic)
       THEN [ok |-> FALSE, msg |-> "not_encrypted", fs |-> fsys, pos |-> p1,
             cipher |-> FALSE]
       ELSE IF ~raw.ok \/ ~dec.ok
       THEN [ok |-> FALSE, msg |-> "error", fs |-> fsys, pos |-> p2,
             cipher |-> FALSE]
       ELSE IF ~TagMatches(RStripNul(dec.s), key.id)
       THEN [ok |-> FALSE, msg |-> "wrong_key", fs |-> fsys, pos |-> p2,
             cipher |-> FALSE]
       ELSE IF DataLen(iv) # BLOCK_SIZE \/ DataLen(salt) # SALT_SIZE
       THEN [ok |-> FALSE, msg |-> "bad_format", fs |-> fsys, pos |-> p4,
             cipher |-> FALSE]
       ELSE LET loop == DecryptLoop(key.key, IvOf(iv), chunk_size, data,
                                    file_size, p4, <<>>, 0, <<>>, <<>>, luck)
                written == [fsys EXCEPT ![output_path] = File(loop.out)]
            IN IF ~loop.ok
               THEN [ok |-> FALSE, msg |-> "bad_padding", fs |-> written,
                     pos |-> loop.pos, cipher |-> TRUE]
               ELSE [ok |-> TRUE, msg |-> "decrypted", fs |-> written,
                     pos |-> loop.pos, cipher |-> TRUE]

\* is_encrypted(file_path)
is_encrypted(fsys, file_path) ==
    IF ~fsys[file_path].ex THEN FALSE
    ELSE Read(fsys[file_path].d, 0, Len(MAGIC)) = <<Lit(MAGIC)>>

-----------------------------------------------------------------------------
(* Inputs of the encryptor *)

\* "a1b2c3d4e5f60718", the shape os.urandom(8).hex() gives
IdA == <<97, 49, 98, 50, 99, 51, 100, 52, 101, 53, 102, 54, 48, 55, 49, 56>>

\* "a1b2c3d499999999": the first 8 characters of IdA, another tail
IdB == <<97, 49, 98, 50, 99, 51, 100, 52, 57, 57, 57, 57, 57, 57, 57, 57>>

\* "a1b2c7d4e5f60718": differs from IdA in its 6th character only
IdC == <<97, 49, 98, 50, 99, 55, 100, 52, 101, 53, 102, 54, 48, 55, 49, 56>>

\* "k1": an imported id shorter than the tag
IdShort == <<107, 49>>

\* an imported id that starts with four Cyrillic letters, then "12345"
IdCyr == <<1082, 1083, 1102, 1095, 49, 50, 51, 52, 53>>

MkKey(id, key, salt) == [id |-> id, key |-> key, salt |-> salt]

\* EncryptionKey values: 32 key bytes and 16 salt bytes each, named
Keys == {MkKey(IdA, "kA", "sA"), MkKey(IdB, "kB", "sB"),
         MkKey(IdB, "kA", "sA"), MkKey(IdC, "kC", "sC"),
         MkKey(IdShort, "kS", "sS"), MkKey(IdCyr, "kU", "sU")}

\* os.urandom(BLOCK_SIZE)
IVs == {"iv1", "iv2"}

\* plaintext sizes: around a block, around a chunk of the first tier, and
\* the first size of the second tier (the tiers from 100 MB on take 26
\* chunks and more, deeper than the evaluation of the read loop goes)
FileSizes == {0, 1, 15, 16, 17, 32, 262143, 262144, 262145, 524288,
              SMALL_FILE_THRESHOLD}

PlainFile(n) == IF n = 0 THEN <<>> ELSE <<Src("F", 0, n)>>

\* files that are no containers: a prefix of the magic, a wrong last byte,
\* the bare magic, the magic and one more byte
OddFiles == {<<Lit(SubSeq(MAGIC, 1, 5))>>,
             <<Lit(SubSeq(MAGIC, 1, 12) \o <<49>>)>>,
             <<Lit(MAGIC)>>,
             <<Lit(MAGIC \o <<107>>)>>}

\* what unpadding makes of a last block nobody chose
Lucks == {0, 1}

LocalPaths == {"in", "enc", "out", "tmp/in.enc", "tmp/r.encrypted"}

RemotePaths == {"r", "r.encrypted"}

NoProv == [set |-> FALSE, key |-> MkKey(<<>>, "", ""), plain |-> <<>>]

NoOp == [op |-> "none"]

-----------------------------------------------------------------------------
(* Initial values of the parts a specification does not move *)

EncInit0 ==
    /\ fs = [p \in LocalPaths |-> NoFile]
    /\ remote = [p \in RemotePaths |-> NoFile]
    /\ enc_key = MkKey(IdA, "kA", "sA")
    /\ prov = NoProv

NoToken == [ex |-> FALSE, s |-> "", p |-> <<>>, d |-> ""]

MkInit0 ==
    /\ salt_file = [ex |-> FALSE, s |-> ""]
    /\ master_key_file = NoToken
    /\ backup_file = NoToken
    /\ ext_file = NoToken
    /\ cur_pw = [set |-> FALSE, p |-> <<>>]

\* no login dialog exists yet
NoDialog ==
    [state |-> "closed", login_button |-> FALSE, restore_button |-> FALSE,
     password_edit |-> FALSE, quit_scheduled |-> FALSE]

DlgInit0 ==
    /\ attempts = 0
    /\ dlg = NoDialog
    /\ evals = 0

\* the worker threads of the main window and the callers of the key store
Threads == {"t1", "t2"}

\* no thread started, no slot connected, nothing emitted
\* self._max_retries as constructed
max_retries == 3

\* self._retry_delay as constructed
retry_delay == 2

MwInit0 ==
    /\ threads = [t \in Threads |-> [pc |-> "idle"]]
    /\ signals = [connections |-> 0, queued |-> <<>>,
                  handled |-> [t \in Threads |-> 0]]
    /\ client = [max_retries |-> max_retries, retry_delay |-> retry_delay]

KsInit0 ==
    /\ km_master_key_file = [ex |-> FALSE, k |-> ""]
    /\ keys_file = [ex |-> FALSE, k |-> "", d |-> <<>>]
    /\ km = [k |-> ""]
    /\ shadow = <<>>

-----------------------------------------------------------------------------
(* The encryptor: encrypt_file, decrypt_file, a new encryptor *)

Init ==
    /\ \E d \in {PlainFile(n) : n \in FileSizes} \cup OddFiles :
          fs = [p \in LocalPaths |-> IF p = "in" THEN File(d) ELSE NoFile]
    /\ remote = [p \in RemotePaths |-> NoFile]
    /\ enc_key \in Keys
    /\ prov = NoProv
    /\ MkInit0 /\ DlgInit0 /\ KsInit0 /\ MwInit0
    /\ last = NoOp

\* encrypt_file("in", "enc") under the active key
Encrypt ==
    \E iv \in IVs :
      \E r \in {EncryptFile(fs, enc_key, "in", "enc", iv)} :
         /\ fs' = r.fs
         /\ prov' = IF r.ok
                    THEN [set |-> TRUE, key |-> enc_key, plain |-> fs["in"].d]
                    ELSE prov
         /\ last' = [op |-> "encrypt", inp |-> "in", out |-> "enc",
                     ok |-> r.ok, msg |-> r.msg, key |-> enc_key]
         /\ UNCHANGED <<remote, enc_key, mkVars, dlgVars, mwVars, ksVars>>

\* decrypt_file(inp, "out") under the active key
Decrypt ==
    \E inp \in {"in", "enc"}, luck \in Lucks :
      \E r \in {DecryptFile(fs, enc_key, inp, "out", luck)} :
         /\ fs' = r.fs
         /\ last' = [op |-> "decrypt", inp |-> inp, out |-> "out",
                     ok |-> r.ok, msg |-> r.msg, pos |-> r.pos,
                     cipher |-> r.cipher, key |-> enc_key,
                     prov |-> IF inp = "enc" THEN prov ELSE NoProv]
         /\ UNCHANGED <<remote, enc_key, prov, mkVars, dlgVars, mwVars, ksVars>>

\* AdaptiveFileEncryptor(key): the application switches to another key
NewEncryptor ==
    \E k \in Keys :
      /\ k # enc_key
      /\ enc_key' = k
      /\ last' = [op |-> "new_encryptor"]
      /\ UNCHANGED <<fs, remote, prov, mkVars, dlgVars, mwVars, ksVars>>

Next == Encrypt \/ Decrypt \/ NewEncryptor

Spec == Init /\ [][Next]_vars

\* decrypt_file has just run on the container that encrypt_file wrote
DecryptedContainer == last.op = "decrypt" /\ last.inp = "enc" /\ last.prov.set

\* C1 as stated: for every plaintext file and every key, encrypt_file
\* followed by decrypt_file of the result under the same key succeeds and
\* leaves output byte-identical to the plaintext.
RoundTrip ==
    (DecryptedContainer /\ last.prov.key = last.key) =>
      (last.ok /\ fs[last.out] = File(last.prov.plain))

\* ids made of ASCII characters other than NUL
IsAsciiId(id) == \A i \in 1..Len(id) : id[i] >= 1 /\ id[i] <= 127

\* C2 as stated: decrypt_file of a container written under key K1 fails with
\* the wrong-key result whenever the active key's id differs from K1's id,
\* also for ids that share their first 8 characters, and before any cipher
\* operation.
KeyIsolationById ==
    (DecryptedContainer /\ last.prov.key.id # last.key.id) =>
      (~last.ok /\ last.msg = "wrong_key" /\ ~last.cipher)

\* C2: decrypt_file of a container written under key K1 fails with the
\* wrong-key result whenever K1's id and the active key's id are ASCII ids
\* that differ within their first 8 characters; the mismatch is found from
\* the header tag, nothing beyond the tag is read, no cipher operation is
\* performed and no output is written.
KeyIsolationByPrefix ==
    (/\ DecryptedContainer
     /\ IsAsciiId(last.prov.key.id)
     /\ IsAsciiId(last.key.id)
     /\ Take(last.prov.key.id, TAG_SIZE) # Take(last.key.id, TAG_SIZE)) =>
      /\ ~last.ok
      /\ last.msg = "wrong_key"
      /\ ~last.cipher
      /\ last.pos = Len(MAGIC) + TAG_SIZE

\* a container written under IdA was refused under IdC, whose id differs from
\* IdA in the sixth character
WrongKeyRefusedSeen ==
    /\ DecryptedContainer
    /\ last.prov.key.id = IdA
    /\ last.key.id = IdC
    /\ last.msg = "wrong_key"
    /\ ~last.cipher

\* C9: decrypt_file on an existing file whose leading bytes are not exactly
\* the magic, files shorter than the magic included, returns the
\* not-encrypted failure, has read nothing beyond the magic and has started
\* no cipher operation; and it returns that failure exactly when
\* is_encrypted(path) is false.
FormatRejection ==
    (last.op = "decrypt" /\ fs[last.inp].ex) =>
      /\ Read(fs[last.inp].d, 0, Len(MAGIC)) # <<Lit(MAGIC)>> =>
           /\ ~last.ok
           /\ last.msg = "not_encrypted"
           /\ last.pos <= Len(MAGIC)
           /\ ~last.cipher
      /\ last.msg = "not_encrypted" <=> ~is_encrypted(fs, last.inp)

\* a file that is a proper prefix of the magic was refused as not encrypted
\* after it had been read to its end
ShortFileRejectedSeen ==
    /\ last.op = "decrypt"
    /\ last.msg = "not_encrypted"
    /\ fs[last.inp].d = <<Lit(SubSeq(MAGIC, 1, 5))>>
    /\ last.pos = 5

-----------------------------------------------------------------------------
(* core/master_key.py: MasterKeyManager *)

\* Passwords are strings of code points
PwWeak == <<119, 114, 111, 110, 103>>                       \* "wrong"

PwGood1 == <<80, 97, 115, 115, 119, 48, 114, 100, 49>>      \* "Passw0rd1"

PwGood2 == <<83, 101, 99, 114, 101, 116, 57, 57>>           \* "Secret99"

Passwords == {PwWeak, PwGood1, PwGood2}

\* os.urandom(32)
Salts == {"s1", "s2"}

\* Fernet(urlsafe_b64encode(PBKDF2(salt, password))).encrypt(data): the token
\* remembers the salt and the password its key was derived from
Token(salt, password, data) ==
    [ex |-> TRUE, s |-> salt, p |-> password, d |-> data]

\* a file that is no Fernet token at all
JunkToken == [ex |-> TRUE, s |-> "", p |-> <<>>, d |-> "junk"]

\* a decrypt that opens the token under any password of the right salt
FernetDecryptsAnyPassword(salt, password, tok) ==
    tok.d # "junk" /\ tok.s = salt

\* cipher.decrypt(token) under the key derived from (salt, password):
\* TRUE where it returns, FALSE where it raises InvalidToken
FernetDecrypts(salt, password, tok) ==
    tok.d # "junk" /\ tok.s = salt /\ tok.p = password

\* the three persisted artifacts
MkState == [salt |-> salt_file, key |-> master_key_file, bak |-> backup_file]

\* is_initialized that also asks for the backup
is_initialized_all_three(mk) == mk.key.ex /\ mk.salt.ex /\ mk.bak.ex

is_initialized(mk) == mk.key.ex /\ mk.salt.ex

\* verify_password that takes any password once the files are there
verify_password_initialized(mk, password) == is_initialized(mk)

verify_password(mk, password) ==
    IF ~is_initialized(mk) THEN FALSE
    ELSE FernetDecrypts(mk.salt.s, password, mk.key)

\* fail = 0: every write succeeds; fail = k: the k-th open(..., 'wb') raises
\* and the except branch returns (False, message)
create_master_key(mk, password, salt, fail) ==
    LET tok == Token(salt, password, "VALIDATION_TOKEN")
        w1 == [mk EXCEPT !.salt = [ex |-> TRUE, s |-> salt]]
        w2 == [w1 EXCEPT !.key = tok]
        w3 == [w2 EXCEPT !.bak = tok]
    IN CASE fail = 1 -> [ok |-> FALSE, mk |-> mk]
         [] fail = 2 -> [ok |-> FALSE, mk |-> w1]
         [] fail = 3 -> [ok |-> FALSE, mk |-> w2]
         [] OTHER -> [ok |-> TRUE, mk |-> w3]

\* change_password that leaves the old salt on disk
change_password_keeps_salt(mk, old_password, new_password, new_salt, fail) ==
    IF ~verify_password(mk, old_password) THEN [ok |-> FALSE, mk |-> mk]
    ELSE LET tok == Token(new_salt, new_password, mk.key.d)
         IN [ok |-> TRUE, mk |-> [mk EXCEPT !.key = tok, !.bak = tok]]

change_password(mk, old_password, new_password, new_salt, fail) ==
    IF ~verify_password(mk, old_password) THEN [ok |-> FALSE, mk |-> mk]
    ELSE LET data == mk.key.d
             tok == Token(new_salt, new_password, data)
             w1 == [mk EXCEPT !.salt = [ex |-> TRUE, s |-> new_salt]]
             w2 == [w1 EXCEPT !.key = tok]
             w3 == [w2 EXCEPT !.bak = tok]
         IN CASE fail = 1 -> [ok |-> FALSE, mk |-> mk]
              [] fail = 2 -> [ok |-> FALSE, mk |-> w1]
              [] fail = 3 -> [ok |-> FALSE, mk |-> w2]
              [] OTHER -> [ok |-> TRUE, mk |-> w3]

\* reset_from_backup that copies the backup without trying the password on it
reset_from_backup_unverified(mk, password, fail) ==
    IF ~mk.bak.ex THEN [ok |-> FALSE, mk |-> mk]
    ELSE IF ~mk.salt.ex THEN [ok |-> FALSE, mk |-> mk]
    ELSE IF fail # 0 THEN [ok |-> FALSE, mk |-> mk]
    ELSE [ok |-> TRUE, mk |-> [mk EXCEPT !.key = mk.bak]]

reset_from_backup(mk, password, fail) ==
    IF ~mk.bak.ex THEN [ok |-> FALSE, mk |-> mk]
    ELSE IF ~mk.salt.ex THEN [ok |-> FALSE, mk |-> mk]
    ELSE IF ~FernetDecrypts(mk.salt.s, password, mk.bak)
    THEN [ok |-> FALSE, mk |-> mk]
    ELSE IF fail # 0 THEN [ok |-> FALSE, mk |-> mk]
    ELSE [ok |-> TRUE, mk |-> [mk EXCEPT !.key = mk.bak]]

\* restore_from_backup that insists on a backup it can decrypt
restore_from_backup_validating(mk, exists, new_password, new_salt, fail) ==
    IF ~exists \/ ~mk.bak.ex \/ mk.bak.d = "junk"
    THEN [ok |-> FALSE, mk |-> mk]
    ELSE LET tok == Token(new_salt, new_password, "VALIDATION_TOKEN")
         IN [ok |-> TRUE,
             mk |-> [salt |-> [ex |-> TRUE, s |-> new_salt],
                     key |-> tok, bak |-> tok]]

\* exists: os.path.exists(backup_file) of the path the caller names
restore_from_backup(mk, exists, new_password, new_salt, fail) ==
    IF ~exists THEN [ok |-> FALSE, mk |-> mk]
    ELSE LET tok == Token(new_salt, new_password, "VALIDATION_TOKEN")
             w1 == [mk EXCEPT !.key = tok]
             w2 == [w1 EXCEPT !.salt = [ex |-> TRUE, s |-> new_salt]]
             w3 == [w2 EXCEPT !.bak = tok]
         IN CASE fail = 1 -> [ok |-> FALSE, mk |-> mk]
              [] fail = 2 -> [ok |-> FALSE, mk |-> w1]
              [] fail = 3 -> [ok |-> FALSE, mk |-> w2]
              [] OTHER -> [ok |-> TRUE, mk |-> w3]

\* the paths a caller can name as the backup file: a file of the user's, the
\* manager's own backup, a path where nothing is
BackupPaths == {"ext", "own", "missing"}

PathExists(path) ==
    CASE path = "ext" -> ext_file.ex
      [] path = "own" -> backup_file.ex
      [] OTHER -> FALSE

SetMk(mk) ==
    /\ salt_file' = mk.salt
    /\ master_key_file' = mk.key
    /\ backup_file' = mk.bak

CreateMasterKey(Fails) ==
    \E password \in Passwords, salt \in Salts, fail \in Fails :
      \E r \in {create_master_key(MkState, password, salt, fail)} :
         /\ SetMk(r.mk)
         /\ cur_pw' = IF r.ok THEN [set |-> TRUE, p |-> password] ELSE cur_pw
         /\ last' = [op |-> "create", ok |-> r.ok, pw |-> password]
         /\ UNCHANGED <<ext_file, encVars, remote, dlgVars, mwVars, ksVars>>

VerifyPassword ==
    \E password \in Passwords :
      /\ last' = [op |-> "verify", ok |-> verify_password(MkState, password),
                  pw |-> password]
      /\ UNCHANGED <<mkVars, encVars, remote, dlgVars, mwVars, ksVars>>

IsInitialized ==
    /\ last' = [op |-> "is_initialized", ok |-> is_initialized(MkState)]
    /\ UNCHANGED <<mkVars, encVars, remote, dlgVars, mwVars, ksVars>>

ChangePassword(Fails) ==
    \E old \in Passwords, new \in Passwords, salt \in Salts, fail \in Fails :
      \E r \in {change_password(MkState, old, new, salt, fail)} :
         /\ SetMk(r.mk)
         /\ cur_pw' = IF r.ok THEN [set |-> TRUE, p |-> new] ELSE cur_pw
         /\ last' = [op |-> "change", ok |-> r.ok, pw |-> new, old |-> old,
                     salt0 |-> salt_file.s]
         /\ UNCHANGED <<ext_file, encVars, remote, dlgVars, mwVars, ksVars>>

ResetFromBackup(Fails) ==
    \E password \in Passwords, fail \in Fails :
      \E r \in {reset_from_backup(MkState, password, fail)} :
         /\ SetMk(r.mk)
         /\ last' = [op |-> "reset", ok |-> r.ok, pw |-> password,
                     repaired |-> r.ok /\ r.mk # MkState]
         /\ UNCHANGED <<ext_file, cur_pw, encVars, remote, dlgVars, mwVars, ksVars>>

RestoreFromBackup(Fails) ==
    \E path \in BackupPaths, new \in Passwords, salt \in Salts,
       fail \in Fails :
      \E r \in {restore_from_backup(MkState, PathExists(path), new, salt, fail)} :
         /\ SetMk(r.mk)
         /\ cur_pw' = IF r.ok THEN [set |-> TRUE, p |-> new] ELSE cur_pw
         /\ last' = [op |-> "restore", ok |-> r.ok, pw |-> new,
                     path |-> path, existed |-> PathExists(path),
                     before |-> MkState, prev |-> cur_pw]
         /\ UNCHANGED <<ext_file, encVars, remote, dlgVars, mwVars, ksVars>>

\* SettingsDialog._backup_master_key: copy the token to a file of the user's
BackupMasterKey ==
    /\ master_key_file.ex
    /\ ext_file' = master_key_file
    /\ last' = [op |-> "backup"]
    /\ UNCHANGED <<salt_file, master_key_file, backup_file, cur_pw, encVars,
                   remote, dlgVars, mwVars, ksVars>>

InitMasterKey ==
    /\ EncInit0 /\ DlgInit0 /\ KsInit0 /\ MwInit0
    /\ salt_file = [ex |-> FALSE, s |-> ""]
    /\ master_key_file = NoToken
    /\ backup_file = NoToken
    /\ ext_file \in {NoToken, JunkToken}
    /\ cur_pw = [set |-> FALSE, p |-> <<>>]
    /\ last = NoOp

NoFail == {0}

\* the master key manager when every file operation succeeds
NextMasterKey ==
    \/ CreateMasterKey(NoFail)
    \/ VerifyPassword
    \/ IsInitialized
    \/ ChangePassword(NoFail)
    \/ ResetFromBackup(NoFail)
    \/ RestoreFromBackup(NoFail)
    \/ BackupMasterKey

SpecMasterKey == InitMasterKey /\ [][NextMasterKey]_vars

AnyFail == 0..3

\* the master key manager when a file operation may raise
NextMasterKeyIO ==
    \/ CreateMasterKey(AnyFail)
    \/ VerifyPassword
    \/ IsInitialized
    \/ ChangePassword(AnyFail)
    \/ ResetFromBackup(AnyFail)
    \/ RestoreFromBackup(AnyFail)
    \/ BackupMasterKey

SpecMasterKeyIO == InitMasterKey /\ [][NextMasterKeyIO]_vars

\* C3: after any sequence of create_master_key, change_password,
\* restore_from_backup and reset_from_backup calls in which every file
\* operation succeeds, verify_password(p) is true exactly when p is the
\* password most recently set by a successful operation; before any password
\* has been set nothing verifies.
VerifyIffCurrentPassword ==
    \A p \in Passwords :
      verify_password(MkState, p) <=> (cur_pw.set /\ p = cur_pw.p)

\* change_password replaced a password by a different one under a new salt;
\* the new one verifies and the old one no longer does
PasswordChangedSeen ==
    /\ last.op = "change"
    /\ last.ok
    /\ last.old # last.pw
    /\ last.salt0 # salt_file.s
    /\ verify_password(MkState, last.pw)
    /\ ~verify_password(MkState, last.old)

\* C5: restore_from_backup succeeds whenever the named backup file exists,
\* whatever the file holds and whatever the old password was; afterwards the
\* new password verifies and, when it differs from the old one, the old one
\* no longer does. When the file does not exist the call fails and leaves
\* the three artifacts as they were.
RestoreSucceedsIffBackupExists ==
    last.op = "restore" =>
      /\ last.ok = last.existed
      /\ last.existed =>
           /\ verify_password(MkState, last.pw)
           /\ \A p \in Passwords : p # last.pw => ~verify_password(MkState, p)
      /\ ~last.existed => MkState = last.before

\* a restore from a file that is no token, replacing a different password
RestoreFromJunkSeen ==
    /\ last.op = "restore"
    /\ last.ok
    /\ last.path = "ext"
    /\ ext_file = JunkToken
    /\ last.prev.set
    /\ last.prev.p # last.pw
    /\ verify_password(last.before, last.prev.p)

\* C10 as stated: is_initialized() reports true only when the salt, the
\* encrypted token and the backup all exist.
InitializedNeedsAllThree ==
    (last.op = "is_initialized" /\ last.ok) =>
      (salt_file.ex /\ master_key_file.ex /\ backup_file.ex)

\* C10: is_initialized() reports true exactly when the salt file and the
\* encrypted token file both exist, whether or not the backup exists.
InitializedIffSaltAndToken ==
    last.op = "is_initialized" =>
      (last.ok <=> (salt_file.ex /\ master_key_file.ex))

\* is_initialized() answered true while the backup was missing
InitializedWithoutBackupSeen ==
    /\ last.op = "is_initialized"
    /\ last.ok
    /\ ~backup_file.ex

-----------------------------------------------------------------------------
(* ui/login_dialog.py: LoginDialog, with ui/restore_dialog.py *)

max_attempts == 3

\* what the user can type into a password field: nothing, or a password
Typed == {<<>>} \cup Passwords

IsUpper(c) == c >= 65 /\ c <= 90

IsDigit(c) == c >= 48 /\ c <= 57

\* RestoreDialog._validate_password
validate_password(password) ==
    /\ Len(password) >= 8
    /\ \E i \in 1..Len(password) : IsUpper(password[i])
    /\ \E i \in 1..Len(password) : IsDigit(password[i])

\* remaining <= 0 once attempts has been incremented: no attempts left
limit_reached_late(n) == max_attempts - n < 0

limit_reached(n) == max_attempts - n <= 0

\* main(): LoginDialog(master_key_manager) and exec_(); a new process after
\* the previous one has ended
OpenLogin ==
    /\ dlg.state # "open"
    /\ dlg' = [state |-> "open", login_button |-> TRUE,
               restore_button |-> is_initialized(MkState),
               password_edit |-> TRUE, quit_scheduled |-> FALSE]
    /\ attempts' = 0
    /\ evals' = 0
    /\ last' = [op |-> "open"]
    /\ UNCHANGED <<mkVars, encVars, remote, ksVars, mwVars>>

\* _try_login, reached from the login button or from Return in the password
\* field; reply is the answer to the creation question of _create_master_key
TryLogin ==
    /\ dlg.state = "open"
    /\ dlg.login_button \/ dlg.password_edit
    /\ \E password \in Typed, reply \in BOOLEAN, salt \in Salts :
         IF password = <<>>
         THEN /\ last' = [op |-> "login", res |-> "empty"]
              /\ UNCHANGED <<mkVars, dlgVars, mwVars>>
         ELSE IF ~is_initialized(MkState)
         THEN IF reply
              THEN LET r == create_master_key(MkState, password, salt, 0)
                   IN /\ SetMk(r.mk)
                      /\ cur_pw' = [set |-> TRUE, p |-> password]
                      /\ dlg' = [dlg EXCEPT !.state = "accepted"]
                      /\ last' = [op |-> "login", res |-> "created",
                                  pw |-> password]
                      /\ UNCHANGED <<ext_file, attempts, evals>>
              ELSE /\ last' = [op |-> "login", res |-> "declined"]
                   /\ UNCHANGED <<mkVars, dlgVars, mwVars>>
         ELSE IF verify_password(MkState, password)
         THEN /\ dlg' = [dlg EXCEPT !.state = "accepted"]
              /\ evals' = evals + 1
              /\ last' = [op |-> "login", res |-> "accepted",
                          pw |-> password]
              /\ UNCHANGED <<mkVars, attempts>>
         ELSE /\ attempts' = attempts + 1
              /\ evals' = evals + 1
              /\ dlg' = IF limit_reached(attempts + 1)
                        THEN [dlg EXCEPT !.login_button = FALSE,
                                         !.restore_button = FALSE,
                                         !.password_edit = FALSE,
                                         !.quit_scheduled = TRUE]
                        ELSE dlg
              /\ last' = [op |-> "login", res |-> "failed"]
              /\ UNCHANGED mkVars
    /\ UNCHANGED <<encVars, remote, ksVars, mwVars>>

\* _restore_key: the restore dialog, one press of its restore button
\* (RestoreDialog._restore) and its closing
RestoreKey ==
    /\ dlg.state = "open"
    /\ dlg.restore_button
    /\ \E path \in BackupPaths, new_password \in Typed,
          confirm_password \in Typed, reply \in BOOLEAN, salt \in Salts :
         IF /\ PathExists(path)
            /\ new_password # <<>>
            /\ new_password = confirm_password
            /\ validate_password(new_password)
            /\ reply
         THEN LET r == restore_from_backup(MkState, PathExists(path),
                                           new_password, salt, 0)
              IN /\ SetMk(r.mk)
                 /\ cur_pw' = [set |-> TRUE, p |-> new_password]
                 /\ last' = [op |-> "restore_key", res |-> "restored"]
                 /\ UNCHANGED ext_file
         ELSE /\ last' = [op |-> "restore_key", res |-> "refused"]
              /\ UNCHANGED mkVars
    /\ UNCHANGED <<dlgVars, mwVars, encVars, remote, ksVars>>

\* the exit button: reject(), after which main() leaves with sys.exit(0)
CancelLogin ==
    /\ dlg.state = "open"
    /\ dlg' = [dlg EXCEPT !.state = "rejected"]
    /\ last' = [op |-> "cancel"]
    /\ UNCHANGED <<attempts, evals, mkVars, encVars, remote, ksVars, mwVars>>

\* QTimer.singleShot(3000, QApplication.quit) fires
QuitTimer ==
    /\ dlg.state = "open"
    /\ dlg.quit_scheduled
    /\ dlg' = [dlg EXCEPT !.state = "terminated"]
    /\ last' = [op |-> "quit"]
    /\ UNCHANGED <<attempts, evals, mkVars, encVars, remote, ksVars, mwVars>>

\* the configuration directory a process can find: nothing yet, or a master
\* key created under one of the passwords, with or without a file of the
\* user's to restore from
InitLogin ==
    /\ EncInit0 /\ DlgInit0 /\ KsInit0 /\ MwInit0
    /\ \E init \in BOOLEAN, password \in Passwords, salt \in Salts :
         LET mk0 == [salt |-> [ex |-> FALSE, s |-> ""], key |-> NoToken,
                     bak |-> NoToken]
             mk == IF init THEN create_master_key(mk0, password, salt, 0).mk
                   ELSE mk0
         IN /\ salt_file = mk.salt
            /\ master_key_file = mk.key
            /\ backup_file = mk.bak
            /\ cur_pw = IF init THEN [set |-> TRUE, p |-> password]
                        ELSE [set |-> FALSE, p |-> <<>>]
    /\ ext_file \in {NoToken, JunkToken}
    /\ last = NoOp

NextLogin == OpenLogin \/ TryLogin \/ RestoreKey \/ CancelLogin \/ QuitTimer

SpecLogin == InitLogin /\ [][NextLogin]_vars

\* C4: in a login session the dialog never records more than three failures
\* and never evaluates a fourth password; once the third failure is recorded
\* the login button, the restore button and the password field are disabled
\* and the application quit is scheduled; from then on the session is never
\* accepted, no password is evaluated and the master key is not touched: the
\* only steps left are the exit button and the quit timer. This holds
\* whatever empty submissions and restores came before.
LoginAttemptLimit ==
    /\ [](/\ attempts <= max_attempts
          /\ evals <= max_attempts
          /\ attempts = max_attempts =>
               /\ ~dlg.login_button
               /\ ~dlg.restore_button
               /\ ~dlg.password_edit
               /\ dlg.quit_scheduled
               /\ dlg.state \in {"open", "rejected", "terminated"})
    /\ [][(attempts = max_attempts /\ dlg.state = "open")
            => /\ evals' = evals
               /\ attempts' = attempts
               /\ dlg'.state \in {"rejected", "terminated"}
               /\ UNCHANGED mkVars]_vars

\* the third failure came after a restore in the same session, and the
\* application then quit
TerminatedAfterThirdFailureSeen ==
    /\ attempts = max_attempts
    /\ evals = max_attempts
    /\ dlg.state = "terminated"
    /\ cur_pw.set
    /\ master_key_file.s = "s2"
    /\ salt_file.s = "s2"

-----------------------------------------------------------------------------
(* core/key_manager.py: KeyManager *)

\* Python values used as key ids: a str, or an int written with its digits
StrId(s) == [t |-> "str", s |-> s]

IntId(digits) == [t |-> "int", s |-> digits]

\* the ids of the records: a generated hex token and what an imported JSON
\* document can carry: "", the string "7" and the number 7
KsIds == {StrId(IdA), StrId(<<>>), StrId(<<55>>), IntId(<<55>>)}

\* key_info dictionaries
KeyInfo(id, name, key) == [id |-> id, name |-> name, key |-> key]

KeyInfos == {KeyInfo(id, "n1", key) : id \in KsIds, key \in {"k1", "k2"}}

\* Fernet.generate_key()
FernetKeys == {"m1", "m2"}

\* bool(key_id)
Truthy(id) == IF id.t = "int" THEN id.s # <<48>> ELSE id.s # <<>>

\* a dict: the sequence of its (key, value) items in insertion order
DictHas(d, k) == \E i \in 1..Len(d) : d[i].k = k

DictGet(d, k) == d[CHOOSE i \in 1..Len(d) : d[i].k = k].v

DictSet(d, k, v) ==
    IF DictHas(d, k)
    THEN [i \in 1..Len(d) |-> IF d[i].k = k THEN [k |-> k, v |-> v] ELSE d[i]]
    ELSE Append(d, [k |-> k, v |-> v])

DictDel(d, k) == SelectSeq(d, LAMBDA it : it.k # k)

\* json.dumps of a dict: every key is written as a string, an int by its
\* digits; the values keep their types
json_dumps(d) ==
    [i \in 1..Len(d) |-> [k |-> StrId(d[i].k.s), v |-> d[i].v]]

RECURSIVE json_loads_from(_, _, _)
json_loads_from(items, i, acc) ==
    IF i > Len(items) THEN acc
    ELSE json_loads_from(items, i + 1, DictSet(acc, items[i].k, items[i].v))

\* json.loads of an object: a repeated name keeps its last value
json_loads(items) == json_loads_from(items, 1, <<>>)

\* cipher.encrypt(json.dumps(keys)) written to keys_file
KeysFile(master_key, d) == [ex |-> TRUE, k |-> master_key, d |-> json_dumps(d)]

load_keys(kf, master_key) ==
    IF ~kf.ex THEN <<>>
    ELSE IF kf.k # master_key THEN <<>>
    ELSE json_loads(kf.d)

\* save_key that starts from an empty dictionary instead of the loaded one
save_key_alone(kf, master_key, key_info) ==
    [ok |-> TRUE,
     kf |-> KeysFile(master_key, DictSet(<<>>, key_info.id, key_info))]

\* save_key(key_info): load, add or update, encrypt and write
save_key(kf, master_key, key_info) ==
    LET keys == DictSet(load_keys(kf, master_key), key_info.id, key_info)
    IN [ok |-> TRUE, kf |-> KeysFile(master_key, keys)]

NoKeyInfo == KeyInfo(StrId(<<>>), "", "")

None == [some |-> FALSE, v |-> NoKeyInfo]

Some(v) == [some |-> TRUE, v |-> v]

\* get_key(key_id) with name left at None
get_key(kf, master_key, key_id) ==
    LET keys == load_keys(kf, master_key)
    IN IF Truthy(key_id) /\ DictHas(keys, key_id)
       THEN Some(DictGet(keys, key_id))
       ELSE None

get_all_keys(kf, master_key) == load_keys(kf, master_key)

delete_key(kf, master_key, key_id) ==
    LET keys == load_keys(kf, master_key)
    IN IF DictHas(keys, key_id)
       THEN [ok |-> TRUE, kf |-> KeysFile(master_key, DictDel(keys, key_id))]
       ELSE [ok |-> FALSE, kf |-> kf]

\* the abstract map: id -> record
MapGet(m, id) == IF id \in DOMAIN m THEN Some(m[id]) ELSE None

MapSet(m, id, v) == [x \in DOMAIN m \cup {id} |-> IF x = id THEN v ELSE m[x]]

MapDel(m, id) == [x \in DOMAIN m \ {id} |-> m[x]]

\* KeyManager(config_dir): __init__ with _load_master_key
NewKeyManager ==
    /\ IF km_master_key_file.ex
       THEN /\ km' = [k |-> km_master_key_file.k]
            /\ UNCHANGED km_master_key_file
       ELSE \E key \in FernetKeys :
              /\ km_master_key_file' = [ex |-> TRUE, k |-> key]
              /\ km' = [k |-> key]
    /\ last' = [op |-> "new"]
    /\ UNCHANGED <<keys_file, shadow, encVars, remote, mkVars, dlgVars, mwVars>>

SaveKey ==
    /\ km.k # ""
    /\ \E key_info \in KeyInfos :
         \E r \in {save_key(keys_file, km.k, key_info)} :
            /\ keys_file' = r.kf
            /\ shadow' = MapSet(shadow, key_info.id, key_info)
            /\ last' = [op |-> "save", ok |-> r.ok, id |-> key_info.id,
                        ret |-> Some(key_info), before |-> shadow]
    /\ UNCHANGED <<km_master_key_file, km, encVars, remote, mkVars, dlgVars, mwVars>>

GetKey ==
    /\ km.k # ""
    /\ \E key_id \in KsIds :
         last' = [op |-> "get", ok |-> TRUE, id |-> key_id,
                  ret |-> get_key(keys_file, km.k, key_id),
                  before |-> shadow]
    /\ UNCHANGED <<ksVars, encVars, remote, mkVars, dlgVars, mwVars>>

GetAllKeys ==
    /\ km.k # ""
    /\ last' = [op |-> "get_all", ret |-> get_all_keys(keys_file, km.k)]
    /\ UNCHANGED <<ksVars, encVars, remote, mkVars, dlgVars, mwVars>>

DeleteKey ==
    /\ km.k # ""
    /\ \E key_id \in KsIds :
         \E r \in {delete_key(keys_file, km.k, key_id)} :
            /\ keys_file' = r.kf
            /\ shadow' = MapDel(shadow, key_id)
            /\ last' = [op |-> "delete", ok |-> r.ok, id |-> key_id,
                        ret |-> None, before |-> shadow]
    /\ UNCHANGED <<km_master_key_file, km, encVars, remote, mkVars, dlgVars, mwVars>>

InitKeyStore ==
    /\ EncInit0 /\ MkInit0 /\ DlgInit0 /\ KsInit0 /\ MwInit0
    /\ last = NoOp

NextKeyStore == NewKeyManager \/ SaveKey \/ GetKey \/ GetAllKeys \/ DeleteKey

SpecKeyStore == InitKeyStore /\ [][NextKeyStore]_vars

\* C6 as stated: the key store refines the abstract map. In every state
\* get_key(id) returns what the map holds for id and nothing when the map
\* holds nothing, also right after a re-instantiation; delete_key reports
\* whether the id was present.
KeyStoreRefinesMap ==
    /\ km.k # "" =>
         \A id \in KsIds : get_key(keys_file, km.k, id) = MapGet(shadow, id)
    /\ last.op = "delete" => (last.ok <=> last.id \in DOMAIN last.before)
    /\ last.op = "save" => last.ok

-----------------------------------------------------------------------------
(* core/client.py: WebDAVClient, the operations the transfer service uses *)

\* retry_count values an account can configure
RetryCounts == {0, 1, max_retries}

\* how one PUT attempt can end: accepted; failed before any byte of the file
\* was read; refused with an HTTP status after the whole body was read
UploadOutcomes == {"ok", "conn", "http"}

\* how one download attempt can end: complete; failed with nothing written;
\* failed with a part of the file written
DownloadOutcomes == {"ok", "fail", "partial"}

DeleteOutcomes == {"ok", "fail"}

\* _execute_with_retry around _upload: the attempts share the file object f,
\* so an attempt sends what lies beyond the position the one before left
RECURSIVE upload_attempts(_, _, _, _, _)
upload_attempts(data, pos, outs, attempt, retries) ==
    IF attempt > retries THEN [ok |-> FALSE, body |-> <<>>]
    ELSE CASE outs[attempt] = "ok" ->
                [ok |-> TRUE, body |-> Slice(data, pos, DataLen(data))]
           [] outs[attempt] = "http" ->
                upload_attempts(data, DataLen(data), outs, attempt + 1, retries)
           [] OTHER ->
                upload_attempts(data, pos, outs, attempt + 1, retries)

upload_file(fsys, rem, client_ok, local_path, remote_path, outs, retries) ==
    IF ~client_ok \/ ~fsys[local_path].ex THEN [ok |-> FALSE, remote |-> rem]
    ELSE LET r == upload_attempts(fsys[local_path].d, 0, outs, 1, retries)
         IN IF r.ok
            THEN [ok |-> TRUE,
                  remote |-> [rem EXCEPT ![remote_path] = File(r.body)]]
            ELSE [ok |-> FALSE, remote |-> rem]

\* _execute_with_retry around download_sync
RECURSIVE download_attempts(_, _, _, _, _, _)
download_attempts(fsys, src, local_path, outs, attempt, retries) ==
    IF attempt > retries THEN [ok |-> FALSE, fs |-> fsys]
    ELSE IF ~src.ex \/ outs[attempt] = "fail"
    THEN download_attempts(fsys, src, local_path, outs, attempt + 1, retries)
    ELSE IF outs[attempt] = "partial"
    THEN download_attempts(
           [fsys EXCEPT ![local_path] =
              File(Slice(src.d, 0, DataLen(src.d) \div 2))],
           src, local_path, outs, attempt + 1, retries)
    ELSE [ok |-> TRUE, fs |-> [fsys EXCEPT ![local_path] = File(src.d)]]

download_file(fsys, rem, client_ok, remote_path, local_path, outs, retries) ==
    IF ~client_ok THEN [ok |-> FALSE, fs |-> fsys]
    ELSE download_attempts(fsys, rem[remote_path], local_path, outs, 1,
                           retries)

\* delete: _execute_with_retry around clean
delete(rem, client_ok, path, outs, retries) ==
    IF /\ client_ok
       /\ rem[path].ex
       /\ \E a \in 1..retries : outs[a] = "ok"
    THEN [ok |-> TRUE, remote |-> [rem EXCEPT ![path] = NoFile]]
    ELSE [ok |-> FALSE, remote |-> rem]

-----------------------------------------------------------------------------
(* services/secure_transfer.py: SecureTransferService *)

\* path.endswith(ENCRYPTED_EXTENSION)
EndsWithEncrypted(path) == path \in {"r.encrypted", "out.encrypted"}

get_encrypted_remote_path(original_path) ==
    IF EndsWithEncrypted(original_path) THEN original_path
    ELSE original_path \o ".encrypted"

get_decrypted_local_path(encrypted_path) ==
    IF EndsWithEncrypted(encrypted_path)
    THEN CASE encrypted_path = "r.encrypted" -> "r"
           [] OTHER -> "out"
    ELSE encrypted_path

\* os.path.join(self.temp_dir, name)
TempPath(name) == "tmp/" \o name

\* is_encrypted_file that only asks whether the file exists
is_encrypted_file_exists(fsys, file_path) == fsys[file_path].ex

is_encrypted_file(fsys, file_path) ==
    IF ~fsys[file_path].ex THEN FALSE
    ELSE Read(fsys[file_path].d, 0, Len(MAGIC)) = <<Lit(MAGIC)>>

\* a finally block that removes nothing
CleanupSkipped(fsys, temp_file) == fsys

\* the finally block: unlink the temporary file if it exists
Cleanup(fsys, temp_file) ==
    IF fsys[temp_file].ex THEN [fsys EXCEPT ![temp_file] = NoFile] ELSE fsys

\* removal of the original that does not wait for the upload's result
DeleteOriginalEarly(fsys, up_ok, delete_original, local_path) ==
    IF delete_original /\ fsys[local_path].ex
    THEN [fsys EXCEPT ![local_path] = NoFile]
    ELSE fsys

\* reached only when upload_file has returned: unlink the original
DeleteOriginal(fsys, up_ok, delete_original, local_path) ==
    IF up_ok /\ delete_original /\ fsys[local_path].ex
    THEN [fsys EXCEPT ![local_path] = NoFile]
    ELSE fsys

\* upload_encrypted, given what its call of encrypt_file returned (e)
upload_encrypted(e, rem, client_ok, local_path, temp_file, encrypted_remote, delete_original, outs, retries) ==
    LET u == IF e.ok
             THEN upload_file(e.fs, rem, client_ok, temp_file,
                              encrypted_remote, outs, retries)
             ELSE [ok |-> FALSE, remote |-> rem]
        f1 == DeleteOriginal(e.fs, e.ok /\ u.ok, delete_original, local_path)
    IN [ok |-> e.ok /\ u.ok, enc_ok |-> e.ok, up_ok |-> u.ok,
        temp |-> temp_file, made |-> e.fs[temp_file].ex,
        target |-> encrypted_remote,
        fs |-> Cleanup(f1, temp_file), remote |-> u.remote]

\* a remote delete that does not wait for the local output
DeleteRemoteEarly(rem, wrote, delete_remote, client_ok, path, outs, retries) ==
    IF delete_remote
    THEN delete(rem, client_ok, path, outs, retries)
    ELSE [ok |-> TRUE, remote |-> rem]

\* reached only when the copy or decrypt_file has succeeded
DeleteRemote(rem, wrote, delete_remote, client_ok, path, outs, retries) ==
    IF wrote /\ delete_remote
    THEN delete(rem, client_ok, path, outs, retries)
    ELSE [ok |-> wrote, remote |-> rem]

\* download_decrypted that unlinks the local path when it has to report a
\* failure
download_decrypted_unlinking(d, r, rem, client_ok, remote_path, local_path, temp_file, delete_remote, del_outs, retries) ==
    LET plain == ~is_encrypted_file(d.fs, temp_file)
        wrote == d.ok /\ (plain \/ r.ok)
        x == DeleteRemote(rem, wrote, delete_remote, client_ok, remote_path,
                          del_outs, retries)
        f1 == IF ~(wrote /\ x.ok) THEN [d.fs EXCEPT ![local_path] = NoFile]
              ELSE IF plain
              THEN [d.fs EXCEPT ![local_path] = d.fs[temp_file]]
              ELSE r.fs
    IN [ok |-> wrote /\ x.ok, got |-> d.ok, plain |-> d.ok /\ plain,
        wrote |-> wrote, decrypt_called |-> d.ok /\ ~plain,
        cipher |-> d.ok /\ ~plain /\ r.cipher,
        temp |-> temp_file, made |-> d.fs[temp_file].ex,
        source |-> remote_path, local |-> local_path,
        fs |-> Cleanup(f1, temp_file), remote |-> x.remote]

\* download_decrypted, given what its call of download_file returned (d) and
\* what decrypt_file returns on the downloaded file (r)
download_decrypted(d, r, rem, client_ok, remote_path, local_path, temp_file, delete_remote, del_outs, retries) ==
    LET plain == ~is_encrypted_file(d.fs, temp_file)
        f1 == IF ~d.ok THEN d.fs
              ELSE IF plain
              THEN [d.fs EXCEPT ![local_path] = d.fs[temp_file]]
              ELSE r.fs
        wrote == d.ok /\ (plain \/ r.ok)
        x == DeleteRemote(rem, wrote, delete_remote, client_ok, remote_path,
                          del_outs, retries)
    IN [ok |-> wrote /\ x.ok, got |-> d.ok, plain |-> d.ok /\ plain,
        wrote |-> wrote, decrypt_called |-> d.ok /\ ~plain,
        cipher |-> d.ok /\ ~plain /\ r.cipher,
        temp |-> temp_file, made |-> d.fs[temp_file].ex,
        source |-> remote_path, local |-> local_path,
        fs |-> Cleanup(f1, temp_file), remote |-> x.remote]

\* a client and the course its attempts take: whether it is connected, the
\* retry count it was configured with, one outcome per attempt
Run(client_ok, retries, outs) ==
    [client_ok |-> client_ok, retries |-> retries, outs |-> outs]

UploadRuns ==
    {Run(TRUE, max_retries, <<"ok", "ok", "ok">>),
     Run(TRUE, max_retries, <<"conn", "ok", "ok">>),
     Run(TRUE, max_retries, <<"http", "ok", "ok">>),
     Run(TRUE, max_retries, <<"conn", "http", "ok">>),
     Run(TRUE, max_retries, <<"http", "conn", "http">>),
     Run(TRUE, 1, <<"conn", "ok", "ok">>),
     Run(TRUE, 0, <<"ok", "ok", "ok">>),
     Run(FALSE, max_retries, <<"ok", "ok", "ok">>)}

DownloadRuns ==
    {Run(TRUE, max_retries, <<"ok", "ok", "ok">>),
     Run(TRUE, max_retries, <<"partial", "ok", "ok">>),
     Run(TRUE, max_retries, <<"fail", "partial", "fail">>),
     Run(TRUE, 0, <<"ok", "ok", "ok">>),
     Run(FALSE, max_retries, <<"ok", "ok", "ok">>)}

DeleteRuns == {<<"fail", "fail", "ok">>, <<"fail", "fail", "fail">>}

\* upload_encrypted("in", remote_path, delete_original)
Upload ==
    \E remote_path \in RemotePaths, delete_original \in BOOLEAN,
       iv \in IVs, run \in UploadRuns :
      \E temp_file \in {TempPath("in.enc")} :
      \E e \in {EncryptFile(fs, enc_key, "in", temp_file, iv)} :
      \E r \in {upload_encrypted(e, remote, run.client_ok, "in", temp_file,
                                get_encrypted_remote_path(remote_path),
                                delete_original, run.outs, run.retries)} :
         /\ fs' = r.fs
         /\ remote' = r.remote
         /\ last' = [op |-> "upload", ok |-> r.ok, del |-> delete_original,
                     enc_ok |-> r.enc_ok, up_ok |-> r.up_ok,
                     temp |-> r.temp, made |-> r.made, local |-> "in",
                     target |-> r.target]
         /\ UNCHANGED <<enc_key, prov, mkVars, dlgVars, mwVars, ksVars>>

\* download_decrypted(remote_path, local_path, delete_remote)
Download ==
    \E remote_path0 \in RemotePaths, local_path0 \in {"out", "out.encrypted"},
       delete_remote \in BOOLEAN, luck \in Lucks, run \in DownloadRuns,
       del_outs \in DeleteRuns :
      \E remote_path \in {IF ~EndsWithEncrypted(remote_path0)
                           THEN get_encrypted_remote_path(remote_path0)
                           ELSE remote_path0} :
      \E local_path \in {get_decrypted_local_path(local_path0)} :
      \E temp_file \in {TempPath(remote_path)} :
      \E d \in {download_file(fs, remote, run.client_ok, remote_path,
                              temp_file, run.outs, run.retries)} :
      \E dec \in {DecryptFile(d.fs, enc_key, temp_file, local_path, luck)} :
      \E r \in {download_decrypted(d, dec, remote, run.client_ok, remote_path,
                                  local_path, temp_file, delete_remote,
                                  del_outs, run.retries)} :
         /\ fs' = r.fs
         /\ remote' = r.remote
         /\ last' = [op |-> "download", ok |-> r.ok, del |-> delete_remote,
                     got |-> r.got, plain |-> r.plain, wrote |-> r.wrote,
                     decrypt_called |-> r.decrypt_called,
                     cipher |-> r.cipher,
                     temp |-> r.temp, made |-> r.made, local |-> r.local,
                     source |-> r.source]
         /\ UNCHANGED <<enc_key, prov, mkVars, dlgVars, mwVars, ksVars>>

\* a local file to send, and a server that holds nothing, a file that was
\* never encrypted, or a file that is the magic and nothing more
InitTransfer ==
    /\ MkInit0 /\ DlgInit0 /\ KsInit0 /\ MwInit0
    /\ \E n \in {0, 17} :
         fs = [p \in LocalPaths |-> IF p = "in" THEN File(PlainFile(n))
                                    ELSE NoFile]
    /\ \E f \in {NoFile, File(PlainFile(17)), File(<<Lit(MAGIC)>>)} :
         remote = [p \in RemotePaths |-> IF p = "r.encrypted" THEN f
                                         ELSE NoFile]
    /\ enc_key \in {MkKey(IdA, "kA", "sA"), MkKey(IdC, "kC", "sC")}
    /\ prov = NoProv
    /\ last = NoOp

\* a service built around the other key
NewService ==
    \E k \in {MkKey(IdA, "kA", "sA"), MkKey(IdC, "kC", "sC")} :
      /\ k # enc_key
      /\ enc_key' = k
      /\ last' = [op |-> "new_service"]
      /\ UNCHANGED <<fs, remote, prov, mkVars, dlgVars, mwVars, ksVars>>

NextTransfer == Upload \/ Download \/ NewService

SpecTransfer == InitTransfer /\ [][NextTransfer]_vars

-----------------------------------------------------------------------------
(* Key records: EncryptionKey, its dictionary form, import and export *)

\* a bytes object: n bytes, told apart by a name
Bytes(n, v) == [n |-> n, v |-> v]

\* base64.b64encode(b).decode('utf-8')
b64encode(b) == [t |-> "b64", n |-> b.n, v |-> b.v]

\* a string that base64.b64decode refuses
NotBase64 == [t |-> "text", n |-> 0, v |-> "?"]

\* base64.b64decode(s): [ok, b], ok FALSE where it raises
b64decode(s) ==
    IF s.t = "b64" THEN [ok |-> TRUE, b |-> Bytes(s.n, s.v)]
    ELSE [ok |-> FALSE, b |-> Bytes(0, "")]

\* EncryptionKey(id, key, salt, name, created, password_derived)
EncryptionKey(id, key, salt, name, created, password_derived) ==
    [id |-> id, key |-> key, salt |-> salt, name |-> name,
     created |-> created, password_derived |-> password_derived]

\* the encryptor of a main window that has not chosen a key
NoEncryptionKey ==
    EncryptionKey(StrId(<<>>), Bytes(KEY_SIZE, ""), Bytes(SALT_SIZE, ""), "",
                  "", FALSE)

RequiredFields == {"id", "key", "salt", "name"}

AllFields == RequiredFields \cup {"created", "password_derived"}

\* a key dictionary: has is the set of names it holds; dict is FALSE for a
\* value that is no dictionary
KeyDict(has, id, name, key, salt, created, password_derived) ==
    [dict |-> TRUE, has |-> has, id |-> id, name |-> name, key |-> key,
     salt |-> salt, created |-> created,
     password_derived |-> password_derived]

\* Python's None where a dictionary is expected
NoneDict ==
    [dict |-> FALSE, has |-> {}, id |-> StrId(<<>>), name |-> "",
     key |-> NotBase64, salt |-> NotBase64, created |-> "",
     password_derived |-> FALSE]

\* EncryptionKey.to_dict
to_dict(k) ==
    KeyDict(AllFields, k.id, k.name, b64encode(k.key), b64encode(k.salt),
            k.created, k.password_derived)

\* EncryptionKey.from_dict: [ok, key], ok FALSE where data['id'],
\* data['key'], data['salt'] or a b64decode raises
from_dict(data) ==
    IF /\ {"id", "key", "salt"} \subseteq data.has
       /\ b64decode(data.key).ok
       /\ b64decode(data.salt).ok
    THEN [ok |-> TRUE,
          key |-> EncryptionKey(
                    data.id,
                    b64decode(data.key).b,
                    b64decode(data.salt).b,
                    IF "name" \in data.has THEN data.name ELSE "default",
                    IF "created" \in data.has THEN data.created ELSE "",
                    IF "password_derived" \in data.has
                    THEN data.password_derived ELSE FALSE)]
    ELSE [ok |-> FALSE, key |-> NoEncryptionKey]

\* create_random(name): os.urandom for salt, key and id
create_random(id, name) ==
    EncryptionKey(StrId(id), Bytes(KEY_SIZE, "r"), Bytes(SALT_SIZE, "sr"),
                  name, "now", FALSE)

\* create_from_password(password, name): PBKDF2 of length KEY_SIZE
create_from_password(id, password, name) ==
    EncryptionKey(StrId(id), Bytes(KEY_SIZE, <<"pbkdf2", password>>),
                  Bytes(SALT_SIZE, "sp"), name, "now", TRUE)

\* what import_key and export_key return: an id or a dictionary, or None
NoId == [some |-> FALSE, id |-> StrId(<<>>)]

SomeId(id) == [some |-> TRUE, id |-> id]

\* import_key(key_data): [ret, kf]
import_key(kf, master_key, key_data) ==
    IF ~key_data.dict \/ ~(RequiredFields \subseteq key_data.has)
    THEN [ret |-> NoId, kf |-> kf]
    ELSE LET s == save_key(kf, master_key, key_data)
         IN [ret |-> IF s.ok THEN SomeId(key_data.id) ELSE NoId,
             kf |-> s.kf]

\* export_key(key_id): a copy of what get_key finds, or None
export_key(kf, master_key, key_id) ==
    LET key == get_key(kf, master_key, key_id)
    IN IF key.some THEN key.v ELSE NoneDict

\* os.urandom(8).hex(): the ids a new key can get
HexIds == {IdC}

GoodDict(id, v) ==
    KeyDict(AllFields, id, "n1", b64encode(Bytes(KEY_SIZE, v)),
            b64encode(Bytes(SALT_SIZE, "s1")), "2024-01-01", FALSE)

\* d without the field f
Without(d, f) == [d EXCEPT !.has = @ \ {f}]

\* the JSON documents a user can paste into the import dialog: two
\* well-formed records for one id, a record whose key is 5 bytes long, a
\* record whose id is "", and records that lack a required field
ImportDocs ==
    {GoodDict(StrId(IdA), "k1"), GoodDict(StrId(IdA), "k2"),
     [GoodDict(StrId(IdC), "k3") EXCEPT !.key = b64encode(Bytes(5, "k3"))],
     GoodDict(StrId(<<>>), "k1")}
    \cup {Without(GoodDict(StrId(IdC), "k1"), f) : f \in RequiredFields}

\* the ids under which the store holds records
StoredIds(kf, master_key) ==
    LET keys == load_keys(kf, master_key)
    IN {keys[i].k : i \in 1..Len(keys)}

\* MainWindow._create_new_key: a random or a password-derived key becomes
\* the encryptor's key and is saved
CreateNewKey ==
    /\ km.k # ""
    /\ \E id \in HexIds, random \in BOOLEAN, password \in {PwGood1} :
         \E k \in {IF random THEN create_random(id, "n1")
                   ELSE create_from_password(id, password, "n1")} :
         \E r \in {save_key(keys_file, km.k, to_dict(k))} :
            /\ StrId(id) \notin StoredIds(keys_file, km.k)
            /\ enc_key' = k
            /\ keys_file' = r.kf
            /\ last' = [op |-> "create", data |-> to_dict(k),
                        ret |-> SomeId(k.id), id |-> k.id]
    /\ UNCHANGED <<fs, prov, remote, mkVars, dlgVars, mwVars, km_master_key_file,
                   km, shadow>>

\* KeyDialog._import_key: import_key on a pasted document
ImportKey ==
    /\ km.k # ""
    /\ \E key_data \in ImportDocs :
         \E r \in {import_key(keys_file, km.k, key_data)} :
            /\ keys_file' = r.kf
            /\ last' = [op |-> "import", data |-> key_data, ret |-> r.ret,
                        id |-> key_data.id]
    /\ UNCHANGED <<encVars, remote, mkVars, dlgVars, mwVars, km_master_key_file,
                   km, shadow>>

\* import_key(export_key(key_id))
ReimportKey ==
    /\ km.k # ""
    /\ \E key_id \in KsIds :
         \E key_data \in {export_key(keys_file, km.k, key_id)} :
         \E r \in {import_key(keys_file, km.k, key_data)} :
            /\ keys_file' = r.kf
            /\ last' = [op |-> "reimport", data |-> key_data, ret |-> r.ret,
                        id |-> key_id]
    /\ UNCHANGED <<encVars, remote, mkVars, dlgVars, mwVars, km_master_key_file,
                   km, shadow>>

\* delete_key(key_id)
RemoveKey ==
    /\ km.k # ""
    /\ \E key_id \in KsIds :
         \E r \in {delete_key(keys_file, km.k, key_id)} :
            /\ keys_file' = r.kf
            /\ last' = [op |-> "remove", data |-> NoneDict,
                        ret |-> IF r.ok THEN SomeId(key_id) ELSE NoId,
                        id |-> key_id]
    /\ UNCHANGED <<encVars, remote, mkVars, dlgVars, mwVars, km_master_key_file,
                   km, shadow>>

\* MainWindow._select_existing_key: the chosen record becomes the
\* encryptor's key through from_dict; where from_dict raises the encryptor
\* stays as it was
SelectKey ==
    /\ km.k # ""
    /\ \E keys \in {get_all_keys(keys_file, km.k)} :
       \E row \in 1..Len(keys) :
       \E r \in {from_dict(keys[row].v)} :
            /\ enc_key' = IF r.ok THEN r.key ELSE enc_key
            /\ last' = [op |-> "select", data |-> NoneDict,
                        ret |-> IF r.ok THEN SomeId(r.key.id) ELSE NoId,
                        id |-> keys[row].k]
    /\ UNCHANGED <<fs, prov, remote, mkVars, dlgVars, mwVars, ksVars>>

InitKeyRecords ==
    /\ MkInit0 /\ DlgInit0 /\ KsInit0 /\ MwInit0
    /\ fs = [p \in LocalPaths |-> NoFile]
    /\ remote = [p \in RemotePaths |-> NoFile]
    /\ prov = NoProv
    /\ enc_key = NoEncryptionKey
    /\ last = NoOp

NextKeyRecords ==
    \/ NewKeyManager
    \/ CreateNewKey
    \/ ImportKey
    \/ ReimportKey
    \/ RemoveKey
    \/ SelectKey

SpecKeyRecords == InitKeyRecords /\ [][NextKeyRecords]_vars

\* the records of the store as the live KeyManager reads them
StoredKeys == load_keys(keys_file, km.k)

\* a record whose key and salt decode to KEY_SIZE and SALT_SIZE bytes
HasKeySizes(d) ==
    /\ b64decode(d.key).ok /\ b64decode(d.key).b.n = KEY_SIZE
    /\ b64decode(d.salt).ok /\ b64decode(d.salt).b.n = SALT_SIZE

\* C11 as stated: after any sequence of key creation, save_key, import_key
\* and delete_key, every record held in the key store and the key bound to
\* the encryptor have a key of exactly 32 bytes and a salt of exactly 16
\* bytes.
KeyRecordSizes ==
    /\ \A i \in 1..Len(StoredKeys) : HasKeySizes(StoredKeys[i].v)
    /\ enc_key.key.n = KEY_SIZE
    /\ enc_key.salt.n = SALT_SIZE

\* C12 as stated: once a record is stored under an id, no step changes what
\* the store holds under that id for as long as the id remains in the store.
StoredRecordNeverChanges ==
    [][\A id \in StoredIds(keys_file, km.k) \cap StoredIds(keys_file', km'.k) :
         DictGet(load_keys(keys_file', km'.k), id) = DictGet(StoredKeys, id)
      ]_vars

\* C12: what the store holds under an id changes in two ways only: an
\* import_key (or save_key) that names this id puts its own record in place
\* of the stored one, and a delete_key of this id removes it. Calls that
\* name other ids and the creation of a key, which stores under an id the
\* store does not hold, leave the record as it is.
StoredRecordReplacedOnlyBySameId ==
    [][\A id \in StoredIds(keys_file, km.k) :
         \/ /\ id \in StoredIds(keys_file', km'.k)
            /\ DictGet(load_keys(keys_file', km'.k), id)
                 = DictGet(StoredKeys, id)
         \/ /\ last'.op \in {"import", "reimport"}
            /\ last'.ret.some
            /\ StrId(last'.data.id.s) = id
            /\ id \in StoredIds(keys_file', km'.k)
            /\ DictGet(load_keys(keys_file', km'.k), id) = last'.data
         \/ /\ last'.op = "remove"
            /\ last'.id = id
            /\ id \notin StoredIds(keys_file', km'.k)
      ]_vars

\* the encryptor still holds the key k1 it took from the record stored
\* under IdA, and an import has since put the record with k2 under IdA
RecordReplacedSeen ==
    /\ last.op = "import"
    /\ last.data = GoodDict(StrId(IdA), "k2")
    /\ enc_key.id = StrId(IdA)
    /\ enc_key.key = Bytes(KEY_SIZE, "k1")
    /\ DictHas(StoredKeys, StrId(IdA))
    /\ DictGet(StoredKeys, StrId(IdA)) = GoodDict(StrId(IdA), "k2")
    /\ Len(StoredKeys) > 1

\* C14 as stated: import_key returns None and leaves the persisted store
\* unchanged whenever a required field is missing; when all are present it
\* stores the record and returns its id; and import_key(export_key(id)) for
\* an id the store holds returns id and leaves the record stored under id
\* equal to what it was.
ImportKeyContract ==
    [][/\ (last'.op = "import" /\ ~(RequiredFields \subseteq last'.data.has))
            => (~last'.ret.some /\ keys_file' = keys_file)
       /\ (last'.op = "import" /\ RequiredFields \subseteq last'.data.has)
            => /\ last'.ret = SomeId(last'.data.id)
               /\ DictHas(load_keys(keys_file', km'.k),
                          StrId(last'.data.id.s))
               /\ DictGet(load_keys(keys_file', km'.k),
                          StrId(last'.data.id.s)) = last'.data
       /\ (last'.op = "reimport" /\ last'.id \in StoredIds(keys_file, km.k))
            => /\ last'.ret = SomeId(last'.id)
               /\ DictHas(load_keys(keys_file', km'.k), last'.id)
               /\ DictGet(load_keys(keys_file', km'.k), last'.id)
                    = DictGet(StoredKeys, last'.id)
      ]_vars

\* the key-store file is damaged on disk: no key decrypts it any more
DamageKeysFile ==
    /\ keys_file.ex
    /\ keys_file.k # "none"
    /\ keys_file' = [keys_file EXCEPT !.k = "none"]
    /\ last' = [op |-> "damage", data |-> NoneDict, ret |-> NoId,
                id |-> StrId(<<>>)]
    /\ UNCHANGED <<encVars, remote, mkVars, dlgVars, mwVars, km_master_key_file,
                   km, shadow>>

\* '.master.key' is lost; the next KeyManager generates another one
LoseMasterKeyFile ==
    /\ km_master_key_file.ex
    /\ km_master_key_file' = [ex |-> FALSE, k |-> ""]
    /\ km' = [k |-> ""]
    /\ last' = [op |-> "lose", data |-> NoneDict, ret |-> NoId,
                id |-> StrId(<<>>)]
    /\ UNCHANGED <<keys_file, shadow, encVars, remote, mkVars, dlgVars, mwVars>>

NextKeyStoreDamaged ==
    \/ NextKeyRecords
    \/ DamageKeysFile
    \/ LoseMasterKeyFile

SpecKeyStoreDamaged == InitKeyRecords /\ [][NextKeyStoreDamaged]_vars

\* the file exists and _load_keys cannot decrypt it
Unreadable(kf, master_key) == kf.ex /\ kf.d # <<>> /\ kf.k # master_key

\* the files of the configuration directory that hold key-store contents:
\* KeyManager writes encryption_keys.json and no copy of it
KeyStoreFiles == {keys_file}

\* C13 as stated: a key-store file that cannot be decrypted or parsed loads
\* as the empty store, and when a later save_key or delete_key overwrites
\* it, its contents are still held by a file of the configuration
\* directory.
CorruptedStorePreserved ==
    /\ [](Unreadable(keys_file, km.k) => StoredKeys = <<>>)
    /\ [][(/\ Unreadable(keys_file, km'.k)
           /\ last'.op \in {"create", "import", "reimport", "remove"}
           /\ keys_file' # keys_file)
            => keys_file \in KeyStoreFiles']_vars

-----------------------------------------------------------------------------
(* Plaintext passthrough of download_decrypted *)

\* the download step that has just been taken fetched a remote file whose
\* leading bytes are not the magic
FetchedPlain ==
    /\ last'.op = "download"
    /\ last'.got
    /\ Read(remote[last'.source].d, 0, Len(MAGIC)) # <<Lit(MAGIC)>>

\* C15 as stated: when the bytes downloaded by download_decrypted do not
\* start with the magic, the file is copied to the local path byte for byte,
\* no decryption is attempted and the call reports success.
PlainPassthrough ==
    [][FetchedPlain =>
         /\ fs'[last'.local] = File(remote[last'.source].d)
         /\ ~last'.decrypt_called
         /\ last'.ok]_vars

\* C15: when the bytes downloaded by download_decrypted do not start with
\* the magic, the file is copied to the local path byte for byte and no
\* decryption is attempted; the call reports success exactly when
\* delete_remote is not set or the remote file has been deleted.
PlainPassthroughUnlessDeleteFails ==
    [][FetchedPlain =>
         /\ fs'[last'.local] = File(remote[last'.source].d)
         /\ ~last'.decrypt_called
         /\ last'.ok <=> (~last'.del \/ ~remote'[last'.source].ex)]_vars

\* a file that was never encrypted has been downloaded as it is
PlainCopiedSeen ==
    /\ last.op = "download"
    /\ last.ok /\ last.got /\ last.plain /\ ~last.decrypt_called
    /\ ~last.del
    /\ remote[last.source] = File(PlainFile(17))
    /\ fs[last.local] = File(PlainFile(17))

(***************************************************************************)
(* Progress reporting: ThrottledProgress and the loops that feed it        *)
(***************************************************************************)

\* the most chunks a file of ProgressSizes is read in
MaxUpdates == 3

\* plaintext sizes of the progress runs: empty, below a chunk, one chunk,
\* and one byte over one and two chunks
ProgressSizes == {0, 1, 16, 262144, 262145, 524288, 524289}

\* time.time() - last_call >= min_interval at the i-th call of update, for
\* every call after the first: the clock is not the program's to choose
Timings == [1..MaxUpdates -> BOOLEAN]

\* the values of processed handed to progress.update(): one per chunk that
\* f_in.read(chunk_size) returns from the len bytes left, none at the empty
\* read that ends the loop
RECURSIVE Updates(_, _, _)
Updates(len, chunk_size, processed) ==
    IF len <= 0
    THEN <<>>
    ELSE LET n == Min(chunk_size, len)
         IN <<processed + n>> \o Updates(len - n, chunk_size, processed + n)

\* ThrottledProgress(callback, total) over the calls update(currents[i]),
\* i..Len(currents): the invocations callback(current, total) it makes.
\* last_call starts at 0, so the first update always finds time_passed;
\* percent - last_percent >= 5 is compared on the exact quotients
RECURSIVE ThrottledProgress(_, _, _, _, _, _)
ThrottledProgress(total, currents, i, timing, started, last_value) ==
    IF i > Len(currents)
    THEN <<>>
    ELSE LET current == currents[i]
             time_passed == ~started \/ timing[i]
             significant_progress ==
                 total > 0 /\ (current - last_value) * 100 >= 5 * total
             completed == current >= total
         IN IF time_passed \/ significant_progress \/ completed
            THEN <<[current |-> current, total |-> total]>>
                 \o ThrottledProgress(total, currents, i + 1, timing, TRUE,
                                      current)
            ELSE ThrottledProgress(total, currents, i + 1, timing, started,
                                   last_value)

\* the callback invocations of _process_file(mode='encrypt') on file_size
\* bytes of plaintext: total is the input size, processed the bytes read
EncryptProgress(file_size, timing) ==
    ThrottledProgress(file_size,
                      Updates(file_size,
                              get_optimal_chunk_size(file_size,
                                                     detect_storage_type),
                              0),
                      1, timing, FALSE, 0)

\* the callback invocations of _process_file(mode='decrypt') on a container
\* of file_size bytes: total is the size of the container, processed counts
\* the chunks read after the header
DecryptProgress(file_size, timing) ==
    ThrottledProgress(file_size,
                      Updates(file_size - HEADER_SIZE,
                              get_optimal_chunk_size(file_size,
                                                     detect_storage_type),
                              0),
                      1, timing, FALSE, 0)

\* encrypt_file("in", "enc", progress_callback)
EncryptWithProgress ==
    \E iv \in IVs, timing \in Timings :
      \E r \in {EncryptFile(fs, enc_key, "in", "enc", iv)} :
        \E calls \in {IF r.ok
                      THEN EncryptProgress(DataLen(fs["in"].d), timing)
                      ELSE <<>>} :
         /\ fs' = r.fs
         /\ prov' = IF r.ok
                    THEN [set |-> TRUE, key |-> enc_key, plain |-> fs["in"].d]
                    ELSE prov
         /\ last' = [op |-> "encrypt", inp |-> "in", out |-> "enc",
                     ok |-> r.ok, msg |-> r.msg, key |-> enc_key,
                     total |-> DataLen(fs["in"].d), calls |-> calls]
         /\ UNCHANGED <<remote, enc_key, mkVars, dlgVars, mwVars, ksVars>>

\* decrypt_file("enc", "out", progress_callback)
DecryptWithProgress ==
    \E luck \in Lucks, timing \in Timings :
      \E r \in {DecryptFile(fs, enc_key, "enc", "out", luck)} :
        \E calls \in {IF r.cipher
                      THEN DecryptProgress(DataLen(fs["enc"].d), timing)
                      ELSE <<>>} :
         /\ fs' = r.fs
         /\ last' = [op |-> "decrypt", inp |-> "enc", out |-> "out",
                     ok |-> r.ok, msg |-> r.msg, key |-> enc_key,
                     total |-> DataLen(fs["enc"].d), calls |-> calls]
         /\ UNCHANGED <<remote, enc_key, prov, mkVars, dlgVars, mwVars, ksVars>>

InitProgress ==
    /\ \E n \in ProgressSizes :
          fs = [p \in LocalPaths |-> IF p = "in" THEN File(PlainFile(n))
                                     ELSE NoFile]
    /\ remote = [p \in RemotePaths |-> NoFile]
    /\ enc_key \in Keys
    /\ prov = NoProv
    /\ MkInit0 /\ DlgInit0 /\ KsInit0 /\ MwInit0
    /\ last = NoOp

NextProgress == EncryptWithProgress \/ DecryptWithProgress \/ NewEncryptor

SpecProgress == InitProgress /\ [][NextProgress]_vars

\* C16: every successful encrypt_file and decrypt_file that was given a
\* progress callback, whatever the input size and whatever the throttle
\* suppressed, ends with an invocation of the callback that reports
\* bytesProcessed equal to totalBytes
CompletionCallback ==
    (last.op \in {"encrypt", "decrypt"} /\ last.ok)
        => /\ last.calls # <<>>
           /\ last.calls[Len(last.calls)].current = last.total
           /\ last.calls[Len(last.calls)].total = last.total

(***************************************************************************)
(* Recovery through reset_from_backup                                      *)
(***************************************************************************)

\* the user who keeps asking for a reset, with every password there is
SpecRecovery ==
    /\ SpecMasterKeyIO
    /\ \A p \in Passwords :
          WF_vars(ResetFromBackup(NoFail) /\ last'.pw = p)

\* the password was the one the stored salt and backup token were derived from
KnewBackupPassword ==
    /\ backup_file.ex /\ salt_file.ex
    /\ backup_file.d # "junk"
    /\ backup_file.s = salt_file.s
    /\ backup_file.p = last.pw

\* C17 as stated: reset_from_backup does not require the password, it can
\* succeed for a caller who does not know the password from which the stored
\* salt and backup token were last derived
ResetWithoutPasswordHappens ==
    <>(last.op = "reset" /\ last.ok /\ ~KnewBackupPassword)

\* C17: reset_from_backup(password) is a recovery path that does not require
\* a usable master key file, but it does require the password: it succeeds
\* only for a caller who supplies the password from which the stored salt and
\* backup token were last derived
ResetRequiresBackupPassword ==
    (last.op = "reset" /\ last.ok) => KnewBackupPassword

\* a reset that replaced a master key file the password no longer opened
MasterKeyRepairedSeen ==
    last.op = "reset" /\ last.ok /\ last.repaired

(***************************************************************************)
(* How a login session comes to be accepted                                *)
(***************************************************************************)

\* the step on which login_dialog.exec_() returns Accepted and main() goes on
\* to show the main window
AccessGranted == dlg.state = "open" /\ dlg'.state = "accepted"

MasterKeyFilesUnchanged == UNCHANGED <<salt_file, master_key_file, backup_file>>

\* C18 as stated: access is granted only by a successful verify_password on
\* an existing master key, never directly by the key-creation step
AccessOnlyByVerify ==
    [][AccessGranted =>
          /\ is_initialized(MkState)
          /\ evals' = evals + 1
          /\ MasterKeyFilesUnchanged]_vars

\* C18: from Uninitialized, create_master_key(password) in the login dialog
\* leads directly to Unlocked: the key-creation step itself accepts the login,
\* with no verify_password after it, and the password it stored is the one
\* that was typed; once the master key exists, access is granted only by a
\* successful verify_password of the current password, which leaves the
\* master key files alone
AccessByVerifyOrCreation ==
    [][AccessGranted =>
          \/ /\ is_initialized(MkState)
             /\ evals' = evals + 1
             /\ MasterKeyFilesUnchanged
             /\ cur_pw.set /\ last'.pw = cur_pw.p
          \/ /\ ~is_initialized(MkState)
             /\ is_initialized(MkState')
             /\ evals' = evals
             /\ FernetDecrypts(salt_file'.s, last'.pw, master_key_file')
             /\ cur_pw'.set /\ last'.pw = cur_pw'.p]_vars

\* a first run: the session was accepted by the creation of the master key,
\* no password having been verified
AcceptedByCreationSeen ==
    /\ dlg.state = "accepted"
    /\ last.op = "login" /\ last.res = "created"
    /\ evals = 0
    /\ is_initialized(MkState)

(***************************************************************************)
(* What verify_password and a refused change_password leave alone          *)
(***************************************************************************)

\* the old password handed to change_password is not the current one
IncorrectOld == ~(cur_pw.set /\ last'.old = cur_pw.p)

\* C19: verify_password, whatever it returns, and change_password called with
\* an incorrect old password leave the persisted salt, validation token and
\* backup unchanged (the change is refused); the boolean verify_password
\* returns is a function of the persisted files and the password, so
\* repeated verify_password(p) calls with no mutation between them return
\* the same boolean
VerifyAndRefusedChangeFrame ==
    [][/\ last'.op = "verify" =>
             /\ MasterKeyFilesUnchanged
             /\ last'.ok = verify_password(MkState, last'.pw)
       /\ (last'.op = "change" /\ IncorrectOld) =>
             /\ MasterKeyFilesUnchanged
             /\ ~last'.ok
       /\ MasterKeyFilesUnchanged =>
             \A p \in Passwords :
                verify_password(MkState', p) = verify_password(MkState, p)
       /\ (last.op = "verify" /\ last'.op = "verify" /\ last'.pw = last.pw)
             => last'.ok = last.ok]_vars

\* a change_password with the wrong old password was refused on a store that
\* has a password
ChangeRefusedSeen ==
    /\ last.op = "change" /\ ~last.ok
    /\ cur_pw.set /\ last.old # cur_pw.p
    /\ is_initialized(MkState)

(***************************************************************************)
(* get_optimal_chunk_size as a function of the file size                   *)
(***************************************************************************)

\* file sizes on both sides of every threshold, the smallest and a large one
ChunkFileSizes ==
    {0, 1, 2147483647}
    \cup UNION {{t - 1, t, t + 1} : t \in {SMALL_FILE_THRESHOLD,
                                           MEDIUM_FILE_THRESHOLD,
                                           LARGE_FILE_THRESHOLD}}

\* get_optimal_chunk_size(size_a) and get_optimal_chunk_size(size_b) of one
\* encryptor, whose _is_ssd is either guess
GetOptimalChunkSize ==
    \E size_a \in ChunkFileSizes, size_b \in ChunkFileSizes,
       is_ssd \in BOOLEAN :
      /\ last' = [op |-> "chunk_size", is_ssd |-> is_ssd,
                  size_a |-> size_a, size_b |-> size_b,
                  chunk_a |-> get_optimal_chunk_size(size_a, is_ssd),
                  chunk_b |-> get_optimal_chunk_size(size_b, is_ssd)]
      /\ UNCHANGED <<encVars, remote, mkVars, dlgVars, mwVars, ksVars>>

InitChunkSize ==
    /\ EncInit0 /\ MkInit0 /\ DlgInit0 /\ KsInit0 /\ MwInit0
    /\ last = NoOp

NextChunkSize == GetOptimalChunkSize

SpecChunkSize == InitChunkSize /\ [][NextChunkSize]_vars

\* the chunk size the tiers promise: 256 KB, 1 MB, 4 MB, 16 MB, and at most
\* 2 MB on storage guessed not to be an SSD
TierChunkSize(file_size, is_ssd) ==
    LET tier == IF file_size < 10485760 THEN 262144
                ELSE IF file_size < 104857600 THEN 1048576
                ELSE IF file_size < 1073741824 THEN 4194304
                ELSE 16777216
    IN IF is_ssd \/ tier <= 2097152 THEN tier ELSE 2097152

\* C20: get_optimal_chunk_size is a non-decreasing function of the file size
\* for a fixed storage-type guess, every value it returns is a multiple of
\* 16, and the values are 256 KB below 10 MB, 1 MB from 10 MB to below
\* 100 MB, 4 MB from 100 MB to below 1 GB and 16 MB from 1 GB on, capped at
\* 2 MB when the storage is guessed non-SSD
ChunkSizeTiers ==
    last.op = "chunk_size" =>
       /\ last.size_a <= last.size_b => last.chunk_a <= last.chunk_b
       /\ last.chunk_a % 16 = 0
       /\ last.chunk_a = TierChunkSize(last.size_a, last.is_ssd)
       /\ last.chunk_b = TierChunkSize(last.size_b, last.is_ssd)

\* the cap at work beside an uncapped tier: a file of exactly 10 MB and one
\* of 1 GB on storage guessed non-SSD
ChunkSizeCappedSeen ==
    /\ last.op = "chunk_size" /\ ~last.is_ssd
    /\ last.size_a = SMALL_FILE_THRESHOLD /\ last.chunk_a = 1048576
    /\ last.size_b = LARGE_FILE_THRESHOLD /\ last.chunk_b = 2097152

(***************************************************************************)
(* change_password interrupted between its writes                          *)
(***************************************************************************)

\* C21: change_password replaces salt, token and backup atomically: when an
\* I/O error interrupts it between its file writes, the persisted state is
\* either the old one, under which the old password still verifies, or the
\* new one, under which the new password verifies, never a mixture in which
\* neither password verifies
ChangePasswordAtomic ==
    [][(last'.op = "change" /\ verify_password(MkState, last'.old)) =>
          \/ /\ MasterKeyFilesUnchanged
             /\ verify_password(MkState', last'.old)
          \/ /\ verify_password(MkState', last'.pw)
             /\ backup_file' = master_key_file']_vars

(***************************************************************************)
(* The key store when the write of the store file is interrupted           *)
(***************************************************************************)

\* what open(keys_file, 'wb') leaves when f.write raises or the process dies
\* before the token is on disk: an empty file or the head of a token, which
\* no Fernet key decrypts
TruncatedKeysFile == [ex |-> TRUE, k |-> "", d |-> <<>>]

\* save_key(key_info) interrupted in "with open(self.keys_file, 'wb')": the
\* file is already truncated, the except branch returns False
save_key_interrupted(kf, master_key, key_info) ==
    [ok |-> FALSE, kf |-> TruncatedKeysFile]

SaveKeyInterrupted ==
    /\ km.k # ""
    /\ \E key_info \in KeyInfos :
         \E r \in {save_key_interrupted(keys_file, km.k, key_info)} :
            /\ keys_file' = r.kf
            /\ last' = [op |-> "save", ok |-> r.ok, id |-> key_info.id,
                        ret |-> Some(key_info), before |-> shadow]
    /\ UNCHANGED <<shadow, km_master_key_file, km, encVars, remote, mkVars,
                   dlgVars, mwVars>>

NextKeyStoreIO == NextKeyStore \/ SaveKeyInterrupted

SpecKeyStoreIO == InitKeyStore /\ [][NextKeyStoreIO]_vars

\* C22: save_key persists the store atomically: after a save_key, interrupted
\* or not, a load of the store file gives either the complete previous
\* collection or the complete new collection, never the empty store of a
\* truncated or empty file
SaveKeyAtomic ==
    [][last'.op = "save" =>
          load_keys(keys_file', km.k)
             \in {load_keys(keys_file, km.k),
                  load_keys(save_key(keys_file, km.k, last'.ret.v).kf, km.k)}]_vars

(***************************************************************************)
(* What a successful upload leaves on the server                           *)
(***************************************************************************)

\* C23: whenever upload_file returns successfully, also when success comes on
\* a retry after failed attempts, the body of the successful attempt is the
\* complete local file read from offset 0; hence after a successful
\* upload_encrypted the remote object is byte-identical to the encrypted
\* temporary file
UploadedBodyComplete ==
    [][(last'.op = "upload" /\ last'.ok) =>
          \E iv \in IVs :
             remote'[last'.target] =
                EncryptFile(fs, enc_key, "in", last'.temp, iv).fs[last'.temp]]_vars

(***************************************************************************)
(* Secure uploads on worker threads of the main window                     *)
(***************************************************************************)

\* files the user can send, two of them with the same name in different
\* directories
UploadPaths == {"a/doc", "b/doc", "a/pic"}

\* os.path.basename
Basename(path) == IF path = "a/pic" THEN "pic" ELSE "doc"

ThreadTempPaths == {TempPath(Basename(p) \o ".enc") : p \in UploadPaths}

ThreadRemotePaths == {p \o ".encrypted" : p \in UploadPaths}

\* _upload_encrypted: threading.Thread(target=_secure_upload_thread).start()
StartUploadThread(t) ==
    /\ threads[t].pc = "idle"
    /\ \E local_path \in UploadPaths :
         threads' = [threads EXCEPT ![t] =
                        [pc |-> "connect", local |-> local_path,
                         remote |-> local_path]]
    /\ last' = [op |-> "start", t |-> t]
    /\ UNCHANGED <<signals, client, encVars, remote, mkVars, dlgVars, ksVars>>

\* _secure_upload_thread: the three connect(..., Qt.QueuedConnection) calls
ConnectSignals(t) ==
    /\ threads[t].pc = "connect"
    /\ signals' = [signals EXCEPT !.connections = @ + 1]
    /\ threads' = [threads EXCEPT ![t].pc = "encrypt"]
    /\ last' = [op |-> "connect", t |-> t]
    /\ UNCHANGED <<client, encVars, remote, mkVars, dlgVars, ksVars>>

\* upload_encrypted up to the return of encrypt_file: the temp path is
\* temp_dir joined with the base name of the local file plus '.enc'
EncryptStep(t) ==
    /\ threads[t].pc = "encrypt"
    /\ \E iv \in IVs :
       \E temp_file \in {TempPath(Basename(threads[t].local) \o ".enc")} :
       \E e \in {EncryptFile(fs, enc_key, threads[t].local, temp_file, iv)} :
         /\ fs' = e.fs
         /\ threads' = [threads EXCEPT ![t] =
                           [pc |-> IF e.ok THEN "upload" ELSE "emit",
                            local |-> threads[t].local,
                            remote |-> threads[t].remote,
                            temp |-> temp_file,
                            target |-> get_encrypted_remote_path(
                                          threads[t].remote),
                            made |-> e.fs[temp_file],
                            ok |-> e.ok]]
    /\ last' = [op |-> "encrypt_step", t |-> t]
    /\ UNCHANGED <<signals, client, remote, enc_key, prov, mkVars, dlgVars, ksVars>>

\* self.client.upload_file(temp_file, encrypted_remote), the server answering
\* the first request
UploadStep(t) ==
    /\ threads[t].pc = "upload"
    /\ \E u \in {upload_file(fs, remote, TRUE, threads[t].temp,
                            threads[t].target, <<"ok">>, 1)} :
         /\ remote' = u.remote
         /\ threads' = [threads EXCEPT ![t].pc = "emit", ![t].ok = u.ok]
    /\ last' = [op |-> "upload_step", t |-> t]
    /\ UNCHANGED <<signals, client, encVars, mkVars, dlgVars, ksVars>>

\* operation_completed.emit or, in the except branch, operation_error.emit:
\* a queued connection posts one call of the slot per connection that exists
\* at the moment of the emit
EmitResult(t) ==
    /\ threads[t].pc = "emit"
    /\ signals' = [signals EXCEPT
                      !.queued = @ \o [i \in 1..signals.connections |-> t]]
    /\ threads' = [threads EXCEPT ![t].pc = "cleanup"]
    /\ last' = [op |-> "emit", t |-> t]
    /\ UNCHANGED <<client, encVars, remote, mkVars, dlgVars, ksVars>>

\* the finally block of upload_encrypted
CleanupStep(t) ==
    /\ threads[t].pc = "cleanup"
    /\ fs' = Cleanup(fs, threads[t].temp)
    /\ threads' = [threads EXCEPT ![t].pc = "disconnect"]
    /\ last' = [op |-> "cleanup", t |-> t,
                removed |-> fs[threads[t].temp].ex]
    /\ UNCHANGED <<signals, client, remote, enc_key, prov, mkVars, dlgVars, ksVars>>

\* the finally block of _secure_upload_thread: disconnect() without a slot
\* drops every connection of the signal, whoever made it; with nothing
\* connected it raises and the bare except swallows that
DisconnectSignals(t) ==
    /\ threads[t].pc = "disconnect"
    /\ signals' = [signals EXCEPT !.connections = 0]
    /\ threads' = [threads EXCEPT ![t].pc = "done"]
    /\ last' = [op |-> "disconnect", t |-> t]
    /\ UNCHANGED <<client, encVars, remote, mkVars, dlgVars, ksVars>>

\* the event loop of the main thread runs one queued call of
\* _on_secure_completed or _on_secure_error
DeliverQueued ==
    /\ signals.queued # <<>>
    /\ signals' = [signals EXCEPT
                      !.queued = Tail(@),
                      !.handled[Head(signals.queued)] = @ + 1]
    /\ last' = [op |-> "deliver", t |-> Head(signals.queued)]
    /\ UNCHANGED <<threads, client, encVars, remote, mkVars, dlgVars, ksVars>>

InitThreads ==
    /\ MkInit0 /\ DlgInit0 /\ KsInit0 /\ MwInit0
    /\ fs = [p \in UploadPaths \cup ThreadTempPaths |->
                CASE p = "a/doc" -> File(PlainFile(17))
                  [] p = "b/doc" -> File(PlainFile(1))
                  [] p = "a/pic" -> File(PlainFile(16))
                  [] OTHER -> NoFile]
    /\ remote = [p \in ThreadRemotePaths |-> NoFile]
    /\ enc_key = MkKey(IdA, "kA", "sA")
    /\ prov = NoProv
    /\ last = NoOp

NextThreads ==
    \/ \E t \in Threads :
          \/ StartUploadThread(t)
          \/ ConnectSignals(t)
          \/ EncryptStep(t)
          \/ UploadStep(t)
          \/ EmitResult(t)
          \/ CleanupStep(t)
          \/ DisconnectSignals(t)
    \/ DeliverQueued

SpecThreads == InitThreads /\ [][NextThreads]_vars

\* the thread is between the choice of its temp path and its cleanup
InFlight(t) == threads[t].pc \in {"upload", "emit", "cleanup"}

\* C24: each upload_encrypted call uses a fresh temp path: no two operations
\* of the service that are in flight at the same time share a temp file, and
\* the temp file an operation is about to upload is the one it encrypted, not
\* deleted or overwritten by another operation
FreshTempPaths ==
    \A t \in Threads, u \in Threads :
       /\ (t # u /\ InFlight(t) /\ InFlight(u))
             => threads[t].temp # threads[u].temp
       /\ threads[t].pc = "upload" => fs[threads[t].temp] = threads[t].made

\* the calls of the main window's handler still waiting in the event loop
\* for the transfer of thread t
Pending(t) == \E i \in 1..Len(signals.queued) : signals.queued[i] = t

\* C25: for every secure transfer started by the main window, also with
\* several transfers running on separate threads against the shared service,
\* the completion-or-error handler runs exactly once for that transfer: no
\* notification is lost because another thread disconnected the signals and
\* none is delivered more than once because several threads connected the
\* same slot
HandlerRunsExactlyOnce ==
    \A t \in Threads :
       /\ signals.handled[t] <= 1
       /\ (threads[t].pc = "done" /\ ~Pending(t)) => signals.handled[t] = 1

(***************************************************************************)
(* Containers that lost the end of their ciphertext                        *)
(***************************************************************************)

\* bytes of a complete container of a plaintext of n bytes: the header and
\* the PKCS7-padded ciphertext
ContainerLen(n) == HEADER_SIZE + (n \div BLOCK_SIZE + 1) * BLOCK_SIZE

\* the lengths a container is cut down to: the bare header, the header and
\* one block, one block short, one byte short
CutLengths(len) ==
    {n \in {HEADER_SIZE, HEADER_SIZE + BLOCK_SIZE, len - BLOCK_SIZE, len - 1} :
        n >= HEADER_SIZE /\ n < len}

\* an interrupted copy or download leaves the head of the container at "enc"
TruncateContainer ==
    /\ fs["enc"].ex
    /\ prov.set /\ DataLen(fs["enc"].d) = ContainerLen(DataLen(prov.plain))
    /\ \E n \in CutLengths(DataLen(fs["enc"].d)) :
         fs' = [fs EXCEPT !["enc"] = File(Slice(fs["enc"].d, 0, n))]
    /\ last' = [op |-> "truncate"]
    /\ UNCHANGED <<remote, enc_key, prov, mkVars, dlgVars, mwVars, ksVars>>

\* plaintexts of no, one and two blocks and of more than a chunk
InitTruncated ==
    /\ \E n \in {0, 1, 16, 17, 262145} :
          fs = [p \in LocalPaths |-> IF p = "in" THEN File(PlainFile(n))
                                     ELSE NoFile]
    /\ remote = [p \in RemotePaths |-> NoFile]
    /\ enc_key \in {MkKey(IdA, "kA", "sA"), MkKey(IdC, "kC", "sC")}
    /\ prov = NoProv
    /\ MkInit0 /\ DlgInit0 /\ KsInit0 /\ MwInit0
    /\ last = NoOp

NextTruncated == Encrypt \/ Decrypt \/ TruncateContainer

SpecTruncated == InitTruncated /\ [][NextTruncated]_vars

\* "enc" holds less than the container encrypt_file wrote there
Truncated ==
    /\ prov.set /\ fs["enc"].ex
    /\ DataLen(fs["enc"].d) < ContainerLen(DataLen(prov.plain))

\* C26: decrypt_file fails on every container whose ciphertext section is
\* truncated, also on one that consists of a valid header with no ciphertext
\* at all; it never reports success without having validated the PKCS7
\* padding of a final block
TruncatedContainerRejected ==
    [][(last'.op = "decrypt" /\ last'.inp = "enc" /\ Truncated)
          => ~last'.ok]_vars

(***************************************************************************)
(* What a failed decrypt_file or download_decrypted leaves at its output   *)
(***************************************************************************)

\* keys with one tag and different key bytes, and a key with another tag
FailKeys == {MkKey(IdB, "kB", "sB"), MkKey(IdB, "kA", "sA"),
             MkKey(IdA, "kA", "sA")}

\* the application goes on with another key
SwitchKey ==
    \E k \in FailKeys :
      /\ k # enc_key
      /\ enc_key' = k
      /\ last' = [op |-> "switch_key"]
      /\ UNCHANGED <<fs, remote, prov, mkVars, dlgVars, mwVars, ksVars>>

\* the server holds a container that an earlier upload_encrypted wrote under
\* the first key
InitDecryptFail ==
    /\ MkInit0 /\ DlgInit0 /\ KsInit0 /\ MwInit0
    /\ fs = [p \in LocalPaths |-> IF p = "in" THEN File(PlainFile(17))
                                  ELSE NoFile]
    /\ remote = [p \in RemotePaths |->
                    IF p = "r.encrypted"
                    THEN EncryptFile(fs, MkKey(IdB, "kB", "sB"), "in", "enc",
                                     "iv1").fs["enc"]
                    ELSE NoFile]
    /\ enc_key = MkKey(IdB, "kB", "sB")
    /\ prov = NoProv
    /\ last = NoOp

NextDecryptFail == Encrypt \/ Decrypt \/ Download \/ SwitchKey

SpecDecryptFail == InitDecryptFail /\ [][NextDecryptFail]_vars

\* C27 as stated: when decrypt_file returns failure, for whatever reason, a
\* file that existed at output_path is unchanged and no new file is left
\* there; likewise a failed download_decrypted leaves nothing new or modified
\* at the local path
FailedDecryptLeavesOutput ==
    [][/\ (last'.op = "decrypt" /\ ~last'.ok) => fs'["out"] = fs["out"]
       /\ (last'.op = "download" /\ ~last'.ok)
             => fs'[last'.local] = fs[last'.local]]_vars

\* C27: when decrypt_file returns failure before it has set up the cipher
\* (input missing, not encrypted, key tag mismatch, malformed header), a file
\* at output_path is unchanged and no new file is left there; a padding
\* failure comes after output_path was opened for writing and leaves the
\* partial output there. Likewise a failed download_decrypted leaves the local
\* path as it was, unless it failed on the padding or on the remote delete
\* that follows the writing of the local file: then the local file is there
FailedDecryptLeavesOutputUnlessWritten ==
    [][/\ (last'.op = "decrypt" /\ ~last'.ok /\ ~last'.cipher)
             => fs'["out"] = fs["out"]
       /\ (last'.op = "decrypt" /\ ~last'.ok /\ last'.cipher)
             => (last'.msg = "bad_padding" /\ fs'["out"].ex)
       /\ (last'.op = "download" /\ ~last'.ok /\ ~last'.cipher /\ ~last'.wrote)
             => fs'[last'.local] = fs[last'.local]
       /\ (last'.op = "download" /\ ~last'.ok
              /\ (last'.cipher \/ last'.wrote))
             => fs'[last'.local].ex]_vars

\* a download under a key of the right tag and the wrong bytes failed on the
\* padding and left its output at the local path
PartialOutputLeftSeen ==
    /\ last.op = "download" /\ ~last.ok
    /\ last.cipher /\ ~last.wrote
    /\ fs[last.local].ex

-----------------------------------------------------------------------------
\* The active key and the key store: MainWindow enables and disables
\* encryption, the key dialog deletes records, uploads go through the
\* service built when encryption was enabled.

\* the EncryptionKey of the encryptor as the container format reads it
ActiveKey(k) == MkKey(k.id.s, k.key.v, k.salt.v)

\* KeyManager(config_dir) as _setup_encryption builds it: the master key of
\* the store, generated where the file does not exist
SetupMasterKeys ==
    IF km_master_key_file.ex THEN {km_master_key_file.k} ELSE FernetKeys

\* SecureTransferService._ensure_key_saved: save_key when get_key finds
\* nothing under the encryptor's id
ensure_key_saved(kf, master_key, key) ==
    IF ~get_key(kf, master_key, key.id).some
    THEN save_key(kf, master_key, to_dict(key)).kf
    ELSE kf

\* MainWindow.toggle_encryption(True) with no encryptor: _setup_encryption
\* builds the KeyManager, lets the user select a stored key (row 0 is a
\* cancelled dialog) or, with an empty store, create one, and builds the
\* service, whose constructor runs _ensure_key_saved
SetupEncryption ==
    /\ enc_key = NoEncryptionKey
    /\ \E mk \in SetupMasterKeys :
       \E saved_keys \in {get_all_keys(keys_file, mk)} :
         /\ km' = [k |-> mk]
         /\ km_master_key_file' = [ex |-> TRUE, k |-> mk]
         /\ IF saved_keys # <<>>
            THEN \E row \in 0..Len(saved_keys) :
                 \E r \in {IF row = 0 THEN [ok |-> FALSE]
                           ELSE from_dict(saved_keys[row].v)} :
                    /\ enc_key' = IF r.ok THEN r.key ELSE enc_key
                    /\ keys_file' = IF r.ok
                                    THEN ensure_key_saved(keys_file, mk, r.key)
                                    ELSE keys_file
                    /\ last' = [op |-> "setup", ok |-> r.ok, created |-> FALSE]
            ELSE \E id \in {IdA, IdC}, random \in BOOLEAN, cancel \in BOOLEAN :
                 \E k \in {IF random THEN create_random(id, "n1")
                           ELSE create_from_password(id, PwGood1, "n1")} :
                    /\ enc_key' = IF cancel THEN enc_key ELSE k
                    /\ keys_file' =
                         IF cancel THEN keys_file
                         ELSE ensure_key_saved(
                                save_key(keys_file, mk, to_dict(k)).kf, mk, k)
                    /\ last' = [op |-> "setup", ok |-> ~cancel,
                                created |-> ~cancel]
    /\ UNCHANGED <<fs, prov, remote, mkVars, dlgVars, mwVars, shadow>>

\* MainWindow.toggle_encryption(False): _disable_encryption drops the
\* service, the encryptor and the KeyManager
DisableEncryption ==
    /\ enc_key' = NoEncryptionKey
    /\ km' = [k |-> ""]
    /\ last' = [op |-> "disable"]
    /\ UNCHANGED <<fs, prov, remote, mkVars, dlgVars, mwVars,
                   km_master_key_file, keys_file, shadow>>

\* KeyDialog._delete_key: the record of the chosen table row is deleted
\* once the user confirms
DeleteKeyRow ==
    /\ km.k # ""
    /\ \E keys \in {get_all_keys(keys_file, km.k)} :
       \E row \in 1..Len(keys) :
       \E r \in {delete_key(keys_file, km.k, keys[row].k)} :
            /\ keys_file' = r.kf
            /\ last' = [op |-> "delete_row", ok |-> r.ok, id |-> keys[row].k]
    /\ UNCHANGED <<encVars, remote, mkVars, dlgVars, mwVars,
                   km_master_key_file, km, shadow>>

\* MainWindow._secure_upload_thread with encryption enabled:
\* upload_encrypted("in", remote_path, delete_original) of the service
UploadWithActiveKey ==
    /\ enc_key # NoEncryptionKey
    /\ \E remote_path \in RemotePaths, delete_original \in {FALSE},
          iv \in {"iv1"},
          run \in {Run(TRUE, max_retries, <<"ok", "ok", "ok">>),
                   Run(TRUE, max_retries, <<"conn", "conn", "conn">>)} :
         \E temp_file \in {TempPath("in.enc")} :
         \E e \in {EncryptFile(fs, ActiveKey(enc_key), "in", temp_file, iv)} :
         \E r \in {upload_encrypted(e, remote, run.client_ok, "in", temp_file,
                                   get_encrypted_remote_path(remote_path),
                                   delete_original, run.outs, run.retries)} :
            /\ fs' = r.fs
            /\ remote' = r.remote
            /\ last' = [op |-> "upload", ok |-> r.ok, enc_ok |-> r.enc_ok,
                        up_ok |-> r.up_ok, id |-> enc_key.id,
                        target |-> r.target]
    /\ UNCHANGED <<enc_key, prov, mkVars, dlgVars, mwVars, ksVars>>

InitActiveKey ==
    /\ MkInit0 /\ DlgInit0 /\ KsInit0 /\ MwInit0
    /\ fs = [p \in LocalPaths |-> IF p = "in" THEN File(PlainFile(17))
                                  ELSE NoFile]
    /\ remote = [p \in RemotePaths |-> NoFile]
    /\ prov = NoProv
    /\ enc_key = NoEncryptionKey
    /\ last = NoOp

NextActiveKey ==
    \/ SetupEncryption
    \/ DisableEncryption
    \/ NewKeyManager
    \/ ImportKey
    \/ DeleteKeyRow
    \/ UploadWithActiveKey

SpecActiveKey == InitActiveKey /\ [][NextActiveKey]_vars

\* C28: whenever upload_encrypted encrypts a file, the key store holds a
\* record under the id of the encryptor's key: after any sequence of
\* enabling encryption, creating or selecting keys and deleting keys in the
\* key dialog, no file is encrypted for upload under a key the store no
\* longer holds.
ActiveKeyInStore ==
    [][(last'.op = "upload" /\ last'.enc_ok)
         => DictHas(load_keys(keys_file', km'.k), enc_key.id)]_vars

-----------------------------------------------------------------------------
\* WebDAVClient._execute_with_retry under the retry settings of the
\* settings dialog.

\* retry_count_spin.setRange(0, 10)
MaxRetryCount == 10

\* values of retry_delay_spin, from both ends of its range
RetryDelays == {1, 2, 30}

\* one outcome per possible attempt: TRUE where func returns, FALSE where
\* it raises. The courses: failures up to a first success with successes
\* or with failures after it, and failures throughout.
AttemptOutcomes ==
    {[i \in 1..MaxRetryCount |-> i >= f] : f \in 1..(MaxRetryCount + 1)}
    \cup {[i \in 1..MaxRetryCount |-> i = f] : f \in 1..MaxRetryCount}

\* _execute_with_retry: for attempt in range(_max_retries), return on the
\* first func() that does not raise, sleep _retry_delay * (attempt + 1)
\* after a failure that is not the last one, raise WebDavException after
\* the loop. events lists the calls of func and the sleeps in their order.
RECURSIVE execute_with_retry(_, _, _, _, _)
execute_with_retry(outs, attempt, retries, delay, events) ==
    IF attempt >= retries
    THEN [ok |-> FALSE, events |-> events]
    ELSE IF outs[attempt + 1]
    THEN [ok |-> TRUE, events |-> Append(events, [e |-> "call", ok |-> TRUE])]
    ELSE execute_with_retry(
           outs, attempt + 1, retries, delay,
           IF attempt < retries - 1
           THEN events \o <<[e |-> "call", ok |-> FALSE],
                            [e |-> "sleep", s |-> delay * (attempt + 1)]>>
           ELSE Append(events, [e |-> "call", ok |-> FALSE]))

\* WebDAVClient.update_settings with what the settings dialog saved
UpdateSettings ==
    /\ \E retry_count \in 0..MaxRetryCount, delay \in RetryDelays :
         /\ client' = [max_retries |-> retry_count, retry_delay |-> delay]
         /\ last' = [op |-> "settings"]
    /\ UNCHANGED <<encVars, remote, mkVars, dlgVars, ksVars, threads, signals>>

\* one call of _execute_with_retry
ExecuteWithRetry ==
    /\ \E outs \in AttemptOutcomes :
       \E r \in {execute_with_retry(outs, 0, client.max_retries,
                                    client.retry_delay, <<>>)} :
         last' = [op |-> "execute", ok |-> r.ok, events |-> r.events,
                  outs |-> outs]
    /\ UNCHANGED <<encVars, remote, mkVars, dlgVars, ksVars, mwVars>>

InitRetry ==
    /\ MkInit0 /\ DlgInit0 /\ KsInit0 /\ MwInit0
    /\ fs = [p \in LocalPaths |-> NoFile]
    /\ remote = [p \in RemotePaths |-> NoFile]
    /\ prov = NoProv
    /\ enc_key = NoEncryptionKey
    /\ last = NoOp

NextRetry == UpdateSettings \/ ExecuteWithRetry

SpecRetry == InitRetry /\ [][NextRetry]_vars

\* the calls of func among the events, in their order
Calls(events) == SelectSeq(events, LAMBDA x : x.e = "call")

\* C29: for every retry_count from 0 to 10 _execute_with_retry calls the
\* operation at least once and at most max(1, retry_count) times; it
\* returns on the first successful call and calls nothing after it; it
\* raises only when every call it made has failed; between the attempts
\* number i and i + 1 it sleeps retry_delay * i, and it does not sleep after
\* the last attempt.
RetryAttemptsBounded ==
    last.op = "execute" =>
      LET calls == Calls(last.events)
          n == Len(calls)
      IN /\ n >= 1
         /\ n <= Max(1, client.max_retries)
         /\ \A i \in 1..n : calls[i].ok <=> (last.ok /\ i = n)
         /\ \A i \in 1..n : last.outs[i] = calls[i].ok
         /\ Len(last.events) = 2 * n - 1
         /\ \A i \in 1..(n - 1) :
              last.events[2 * i] = [e |-> "sleep",
                                    s |-> client.retry_delay * i]

-----------------------------------------------------------------------------
\* Two callers of one key store: save_key and delete_key as the steps a
\* scheduler can interleave, the read of _load_keys and the write of the
\* modified dictionary.

\* the calls a caller can make
StoreCalls ==
    {[op |-> "save", key_info |-> GoodDict(StrId(IdA), "k1")],
     [op |-> "save", key_info |-> GoodDict(StrId(IdC), "k3")],
     [op |-> "save", key_info |-> GoodDict(StrId(IdA), "k2")],
     [op |-> "delete", key_id |-> StrId(IdA)],
     [op |-> "delete", key_id |-> StrId(IdC)]}

Other(t) == CHOOSE u \in Threads : u # t

\* a call made alone: the store file it leaves
CallAlone(kf, master_key, call) ==
    IF call.op = "save" THEN save_key(kf, master_key, call.key_info).kf
    ELSE delete_key(kf, master_key, call.key_id).kf

\* a caller enters save_key or delete_key; base is the store file as it
\* was before the first of the calls in progress began
BeginCall(t) ==
    /\ km.k # ""
    /\ threads[t].pc = "idle"
    /\ \E call \in StoreCalls :
         threads' = [threads EXCEPT ![t] =
                       [pc |-> "load", call |-> call,
                        base |-> IF threads[Other(t)].pc \in {"idle"}
                                 THEN keys_file
                                 ELSE threads[Other(t)].base]]
    /\ last' = [op |-> "begin", t |-> t]
    /\ UNCHANGED <<signals, client, encVars, remote, mkVars, dlgVars, ksVars>>

\* keys = self._load_keys()
LoadKeysStep(t) ==
    /\ threads[t].pc = "load"
    /\ threads' = [threads EXCEPT ![t] =
                     [pc |-> "persist", call |-> threads[t].call,
                      base |-> threads[t].base,
                      keys |-> load_keys(keys_file, km.k)]]
    /\ last' = [op |-> "load", t |-> t]
    /\ UNCHANGED <<signals, client, encVars, remote, mkVars, dlgVars, ksVars>>

\* keys[key_id] = key_info or del keys[key_id], then the write of the
\* whole dictionary; delete_key of an id it did not load writes nothing
PersistStep(t) ==
    /\ threads[t].pc = "persist"
    /\ LET call == threads[t].call
           keys == threads[t].keys
       IN keys_file' =
            IF call.op = "save"
            THEN KeysFile(km.k, DictSet(keys, call.key_info.id, call.key_info))
            ELSE IF DictHas(keys, call.key_id)
            THEN KeysFile(km.k, DictDel(keys, call.key_id))
            ELSE keys_file
    /\ threads' = [threads EXCEPT ![t] =
                     [pc |-> "done", call |-> threads[t].call,
                      base |-> threads[t].base]]
    /\ last' = [op |-> "persist", t |-> t]
    /\ UNCHANGED <<signals, client, encVars, remote, mkVars, dlgVars,
                   km_master_key_file, km, shadow>>

\* both calls have returned; the callers are free for the next ones
ReturnCalls ==
    /\ \A t \in Threads : threads[t].pc = "done"
    /\ threads' = [t \in Threads |-> [pc |-> "idle"]]
    /\ last' = [op |-> "return"]
    /\ UNCHANGED <<signals, client, encVars, remote, mkVars, dlgVars, ksVars>>

InitCallers ==
    /\ MkInit0 /\ DlgInit0 /\ KsInit0 /\ MwInit0
    /\ fs = [p \in LocalPaths |-> NoFile]
    /\ remote = [p \in RemotePaths |-> NoFile]
    /\ prov = NoProv
    /\ enc_key = NoEncryptionKey
    /\ last = NoOp

NextCallers ==
    \/ NewKeyManager
    \/ \E t \in Threads : BeginCall(t)
    \/ \E t \in Threads : LoadKeysStep(t)
    \/ \E t \in Threads : PersistStep(t)
    \/ ReturnCalls

SpecCallers == InitCallers /\ [][NextCallers]_vars

\* the records of a store file as a set of (id, record) pairs
Collection(kf) ==
    LET keys == load_keys(kf, km.k)
    IN {keys[i] : i \in 1..Len(keys)}

\* C30: key store mutations are serialized: however the load, modify and
\* persist steps of two save_key or delete_key calls on one store file
\* interleave, the collection persisted when both have returned is the one
\* that the two calls made one after the other, in one of the two orders,
\* leave; two interleaved save_key calls with distinct ids are both stored.
MutationsSerialized ==
    (\A t \in Threads : threads[t].pc = "done") =>
      LET base == threads["t1"].base
          c1 == threads["t1"].call
          c2 == threads["t2"].call
      IN Collection(keys_file) \in
           {Collection(CallAlone(CallAlone(base, km.k, c1), km.k, c2)),
            Collection(CallAlone(CallAlone(base, km.k, c2), km.k, c1))}

=============================================================================
